---- MODULE Spec2Model ----
(***************************************************************************)
(* nxhttp: the CGI gateway step (CgiProcessor.Process), its stdout piping  *)
(* routine (the output translator), the request context (NxContext) and    *)
(* the response writer they share.                                         *)
(*                                                                         *)
(* A byte is a one-character string; CR and LF are named.  A chunk, the    *)
(* header buffer and a body are sequences of bytes.                        *)
(***************************************************************************)
EXTENDS Integers, Sequences, FiniteSets, TLC

\* ------------------------------------------------------------------ bounds
\* total length of a subprocess output over Alphabet; every such output is
\* delivered in every possible split into read chunks
MaxOut == 5
\* number of non-empty reads of the subprocess output per invocation
MaxReads == 3
\* number of SendBytes calls made by the step that follows the gateway
MaxNextSend == 1
\* number of route-match parameters of a request
MaxParams == 2
\* number of steps of a chain
MaxChain == 3
\* number of calls a handler makes on the context before it returns
MaxOps == 2
\* number of processors one call of Use is given
MaxUse == 2
\* number of reads of the request body that return no error
MaxBody == 2
\* number of chunks of diagnostic text the subprocess writes
MaxErr == 1
\* number of websocket connections
MaxConns == 2

\* ------------------------------------------------------------------- bytes
CR == "CR"
LF == "LF"
SP == " "
COLON == ":"

UpperLetters ==
  <<"A","B","C","D","E","F","G","H","I","J","K","L","M",
    "N","O","P","Q","R","S","T","U","V","W","X","Y","Z">>
LowerLetters ==
  <<"a","b","c","d","e","f","g","h","i","j","k","l","m",
    "n","o","p","q","r","s","t","u","v","w","x","y","z">>
Digits == <<"0","1","2","3","4","5","6","7","8","9">>

IsUpper(b) == \E i \in 1..26 : UpperLetters[i] = b
IsLower(b) == \E i \in 1..26 : LowerLetters[i] = b
IsDigit(b) == \E i \in 1..10 : Digits[i] = b
DigitVal(b) == (CHOOSE i \in 1..10 : Digits[i] = b) - 1

\* unicode.ToLower / ToUpper on one ASCII byte
ToLowerByte(b) ==
  IF IsUpper(b) THEN LowerLetters[CHOOSE i \in 1..26 : UpperLetters[i] = b] ELSE b
ToUpperByte(b) ==
  IF IsLower(b) THEN UpperLetters[CHOOSE i \in 1..26 : LowerLetters[i] = b] ELSE b

\* strings.ToLower
ToLower(s) == [i \in 1..Len(s) |-> ToLowerByte(s[i])]

\* the byte at 1-based position i of b; positions past the part of the
\* 512-byte buffer written so far hold the zero byte of make([]byte, 512)
NUL == "NUL"
At(b, i) == IF i >= 1 /\ i <= Len(b) THEN b[i] ELSE NUL

\* ---------------------------------------------------- regexp \r?\n\r?\n
\* The end (exclusive, 0-based) of a match of eoh that starts at the 1-based
\* position i of b, or -1 when none starts there.
MatchEndAt(b, i) ==
  LET j == IF At(b, i) = CR THEN i + 1 ELSE i
  IN IF At(b, j) # LF THEN -1
     ELSE LET k == IF At(b, j + 1) = CR THEN j + 2 ELSE j + 1
          IN IF At(b, k) = LF THEN k ELSE -1

NoMatch == [found |-> FALSE, lo |-> 0, hi |-> 0]

\* eoh.FindIndex(b): the leftmost match, as Go's idx[0] (lo) and idx[1] (hi)
FindIndex(b) ==
  LET S == {i \in 1..Len(b) : MatchEndAt(b, i) # -1}
  IN IF S = {} THEN NoMatch
     ELSE LET i == CHOOSE x \in S : \A y \in S : x <= y
          IN [found |-> TRUE, lo |-> i - 1, hi |-> MatchEndAt(b, i)]

\* ------------------------------------------------------- string helpers
\* 1-based position of the first byte c in s, 0 when there is none
IndexByte(s, c) ==
  LET S == {i \in 1..Len(s) : s[i] = c}
  IN IF S = {} THEN 0 ELSE CHOOSE x \in S : \A y \in S : x <= y

\* strings.Split(s, "\n")
RECURSIVE Split(_)
Split(s) ==
  LET p == IndexByte(s, LF)
  IN IF p = 0 THEN <<s>>
     ELSE <<SubSeq(s, 1, p - 1)>> \o Split(SubSeq(s, p + 1, Len(s)))

\* strings.Trim(s, " ")
Trim(s) ==
  LET S == {i \in 1..Len(s) : s[i] # SP}
  IN IF S = {} THEN <<>>
     ELSE SubSeq(s, CHOOSE x \in S : \A y \in S : x <= y,
                    CHOOSE x \in S : \A y \in S : x >= y)

\* strconv.Atoi(s): an optional sign and then decimal digits only
AtoiDigits(s) == IF Len(s) > 0 /\ (s[1] = "+" \/ s[1] = "-") THEN Tail(s) ELSE s
AtoiOk(s) ==
  /\ Len(AtoiDigits(s)) > 0
  /\ \A i \in 1..Len(AtoiDigits(s)) : IsDigit(AtoiDigits(s)[i])
RECURSIVE DecVal(_)
DecVal(d) ==
  IF Len(d) = 0 THEN 0
  ELSE 10 * DecVal(SubSeq(d, 1, Len(d) - 1)) + DigitVal(d[Len(d)])
AtoiVal(s) ==
  IF Len(s) > 0 /\ s[1] = "-" THEN 0 - DecVal(AtoiDigits(s)) ELSE DecVal(AtoiDigits(s))

\* status_re = ^HTTP/.+(\d\d\d): the 1-based positions where the three
\* digits of the capture can start (after "HTTP/" and one byte or more)
HttpPrefix == <<"H","T","T","P","/">>
StatusReStarts(s) ==
  IF Len(s) >= 5 /\ SubSeq(s, 1, 5) = HttpPrefix
  THEN {p \in 7..(Len(s) - 2) :
          IsDigit(s[p]) /\ IsDigit(s[p + 1]) /\ IsDigit(s[p + 2])}
  ELSE {}
StatusReMatches(s) == StatusReStarts(s) # {}
\* .+ is greedy: the capture is the last run of three digits
StatusReCapture(s) ==
  LET p == CHOOSE x \in StatusReStarts(s) : \A y \in StatusReStarts(s) : x >= y
  IN SubSeq(s, p, p + 2)

\* --------------------------------------------- http.Header (response map)
\* net/textproto validHeaderFieldByte, on the bytes used here
IsTokenByte(b) ==
  IsUpper(b) \/ IsLower(b) \/ IsDigit(b) \/ b \in {"-", ".", "_", "+"}
\* textproto.CanonicalMIMEHeaderKey, applied by Header().Set to the name
Canon(name) ==
  IF \E i \in 1..Len(name) : ~IsTokenByte(name[i]) THEN name
  ELSE [i \in 1..Len(name) |->
          IF i = 1 \/ name[i - 1] = "-"
          THEN ToUpperByte(name[i]) ELSE ToLowerByte(name[i])]

EmptyHeader == [x \in {} |-> <<>>]
\* w.Header().Set(name, val)
HeaderSet(h, name, val) ==
  [x \in (DOMAIN h) \cup {Canon(name)} |-> IF x = Canon(name) THEN val ELSE h[x]]


\* ------------------------------------------------ the header parse loop
StatusName == <<"s","t","a","t","u","s">>
\* the comparison without the lower-casing: name == "Status"
IsStatusName_Exact(name) == name = <<"S","t","a","t","u","s">>
\* strings.ToLower(name) == "status"
IsStatusName(name) == ToLower(name) = StatusName

\* One iteration of the loop over strings.Split(string(hdr), "\n"), applied
\* to the line s; st holds the local status, the response header map and
\* whether an earlier iteration panicked.  s[len(s)-1] on an empty line is
\* an index out of range: a run-time panic.
ParseLine(s, st) ==
  IF st.panicked THEN st
  ELSE IF Len(s) = 0 THEN [st EXCEPT !.panicked = TRUE]
  ELSE
    LET t == IF s[Len(s)] = CR THEN SubSeq(s, 1, Len(s) - 1) ELSE s
        c == IndexByte(t, COLON)
    IN IF c > 0
       THEN LET name == Trim(SubSeq(t, 1, c - 1))
                val  == Trim(SubSeq(t, c + 1, Len(t)))
            IN IF IsStatusName(name)
               THEN IF AtoiOk(val) THEN [st EXCEPT !.status = AtoiVal(val)] ELSE st
               ELSE [st EXCEPT !.header = HeaderSet(st.header, name, val)]
       ELSE IF StatusReMatches(t)
            THEN [st EXCEPT !.status = DecVal(StatusReCapture(t))]
            ELSE st

RECURSIVE ParseLines(_, _)
ParseLines(lines, st) ==
  IF Len(lines) = 0 THEN st
  ELSE ParseLines(Tail(lines), ParseLine(Head(lines), st))

\* a parse that forgets the bytes buffered by earlier reads
HdrOnFound_CurrentOnly(h, b, ix) == SubSeq(b, 1, ix.lo)
\* hdr = append(hdr, buf[:idx[0]]...) when the separator is found
HdrOnFound(h, b, ix) == h \o SubSeq(b, 1, ix.lo)

\* stdout.Read(buf) of the chunk c into the buffer b: the first len(c) bytes
\* are overwritten, the bytes of earlier reads behind them stay
ReadInto(b, c) == c \o SubSeq(b, Len(c) + 1, Len(b))

\* ------------------------------------------------------ subprocess output
Alphabet == {LF, CR, COLON, "a"}
SmallChunks(maxlen) == UNION {[1..k -> Alphabet] : k \in 1..maxlen}

\* "Status: 404 Not Found\r\nX-Foo: bar\r\n\r\nbody"
ChunkExample2 ==
  <<"S","t","a","t","u","s",":"," ","4","0","4"," ","N","o","t"," ",
    "F","o","u","n","d",CR,LF,"X","-","F","o","o",":"," ","b","a","r",
    CR,LF,CR,LF,"b","o","d","y">>
\* "Status: 404\n\nxy"
ChunkStatus404 == <<"S","t","a","t","u","s",":"," ","4","0","4",LF,LF,"x","y">>
\* "HTTP/1.1 302 Found\r\n\r\nz"
ChunkStatusLine ==
  <<"H","T","T","P","/","1",".","1"," ","3","0","2"," ","F","o","u","n","d",
    CR,LF,CR,LF,"z">>
\* "status : 201\nx-a: 1\nX-A: 2\n\nqq"
ChunkLower ==
  <<"s","t","a","t","u","s"," ",":"," ","2","0","1",LF,"x","-","a",":"," ","1",LF,
    "X","-","A",":"," ","2",LF,LF,"q","q">>
\* "X-A: 1\n": headers without the blank line
ChunkPartial == <<"X","-","A",":"," ","1",LF>>
\* "Status: 7\n\n"
ChunkStatus7 == <<"S","t","a","t","u","s",":"," ","7",LF,LF>>
\* "body"
ChunkBody == <<"b","o","d","y">>

\* "Yy: 2\n": one byte shorter than ChunkPartial
ChunkPartial2 == <<"Y","y",":"," ","2",LF>>

NamedChunks ==
  {ChunkExample2, ChunkStatus404, ChunkStatusLine, ChunkLower, ChunkPartial,
   ChunkPartial2, ChunkStatus7, ChunkBody}
\* the outputs used where the translator runs against the other threads
ConcChunks == {ChunkStatus404, ChunkPartial, ChunkBody}

RECURSIVE TotalLen(_)
TotalLen(cs) == IF Len(cs) = 0 THEN 0 ELSE Len(Head(cs)) + TotalLen(Tail(cs))

\* The subprocess outputs considered for the translator alone: a sequence of
\* named chunks, or any split of at most MaxOut bytes over Alphabet.  Given
\* the chunks rs read so far, the chunks the next read can return.
NextChunks(rs) ==
  IF rs = <<>> THEN NamedChunks \cup SmallChunks(MaxOut)
  ELSE IF rs[1] \in NamedChunks THEN NamedChunks
  ELSE SmallChunks(MaxOut - TotalLen(rs))

\* ------------------------------------------------------------------ state
VARIABLES
  reads,      \* the non-empty chunks stdout.Read has returned, in order
  buf,        \* translator: the read buffer, up to the last byte ever written
  n,          \* translator: byte count of the last read
  isheader,   \* translator: READING_HEADERS (TRUE) or STREAMING_BODY
  status,     \* translator: the pending status code
  hdr,        \* translator: the accumulated header bytes
  stop,       \* translator: the loop's stop flag
  idx,        \* translator: the match found by eoh.FindIndex
  tpc,        \* translator: position in the routine
  resHeader,  \* response: the header map
  resLog,     \* response: the WriteHeader and Write calls, in order
  wfail,      \* response: a Write has returned an error (the client is gone)
  stopped,    \* NxContext.stopped
  cproc,      \* NxContext.cproc
  chainNext,  \* the gateway step's next processor ("nil" when none)
  gpc,        \* gateway thread: position in Process and in later steps
  pipeClosed, \* cmd.Wait has closed the read end of the stdout pipe
  endBy,      \* who is inside NxContext.End, and
  endCode,    \*   with which status
  nsent,      \* SendBytes calls made by the next step
  commitAtExit, \* history: the translator had committed when cmd.Run returned
  pipeErr,    \* which of StdinPipe, StdoutPipe, StderrPipe failed ("none" if none)
  sub,        \* the subprocess: not started, running, exited, killed
  timeout,    \* self.GetTimeout(): the step's timeout in milliseconds
  ctxDone,    \* r.Context() is cancelled, or the derived deadline has passed
  envsBack,   \* CgiProcessor.envs: its backing array, up to the capacity
  envsLen,    \*   and its length
  optsBack,   \* CgiProcessor.opts: its backing array, up to the capacity
  optsLen,    \*   and its length
  rq,         \* per request: the inbound request and the scope's data
  apc,        \* per request: position in the assembly of env and args
  aidx,       \* per request: items appended in the current loop
  env,        \* per request: the local slice env
  args,       \* per request: the local slice args
  cmdArgs,    \* per request: the arguments copied by exec.Command
  procEnv,    \* per request: cmd.Env as read when the subprocess is started
  pnext,      \* DefaultProcessor.next of every processor (0 is nil)
  stack,      \* the handlers of the chain steps that are running, innermost last
  ran,        \* history: the steps whose Process was called, in order
  quiet,      \* history: the steps that returned having called neither
              \*   RunNext nor End nor Redirect
  lastOp,     \* history: the last call made, with its arguments and outcome
  params,     \* NxContext.params: the route-match parameters of the request
  ptimeout,   \* DefaultProcessor.timeout of every processor
  eproc,      \* BaseEntry.proc: the head step of the entry (0 is nil)
  fpc,        \* feeder: position in the stdin feeding routine
  fchunk,     \* feeder: buf[:n] of the last r.Body.Read
  fend,       \* feeder: that Read returned an error (end of body included)
  bodyRead,   \* history: the chunks r.Body.Read has returned, in order
  stdinW,     \* history: the stdin.Write calls, with their outcome
  epc,        \* collector: position in the stderr piping routine
  elogged,    \* collector: chunks of diagnostic text logged
  clients,    \* WebsocketProcessor.clients: the registered connections
  alive,      \* per connection: cli.send != nil
  chanClosed, \* per connection: close(cli.send) has been called
  wpc,        \* per connection: position of its writer goroutine
  rholders,   \* WebsocketProcessor.lock: the goroutines that hold it for reading
  wholder,    \* WebsocketProcessor.lock: the goroutine that holds it for writing
  thpc,       \* per goroutine (broadcaster, reader): its position
  todo,       \* per broadcaster: the connections its range loop has yet to visit
  fails,      \* per broadcaster: the local slice fails
  target,     \* per goroutine: the connection whose stop() it runs
  wsPanic     \* a goroutine has panicked: the server process is gone

vars ==
  <<reads, buf, n, isheader, status, hdr, stop, idx, tpc, resHeader, resLog,
    wfail, stopped, cproc, chainNext, gpc, pipeClosed, endBy, endCode, nsent,
    commitAtExit, pipeErr, sub, timeout, ctxDone,
    envsBack, envsLen, optsBack, optsLen, rq, apc, aidx, env, args, cmdArgs,
    procEnv, pnext, stack, ran, quiet, lastOp, params, ptimeout, eproc,
    fpc, fchunk, fend, bodyRead, stdinW, epc, elogged,
    clients, alive, chanClosed, wpc, rholders, wholder, thpc, todo, fails,
    target, wsPanic>>

tvars == <<reads, buf, n, isheader, status, hdr, stop, idx, tpc>>
\* the subprocess and the cancellation scope it is bound to
lvars == <<pipeErr, sub, timeout, ctxDone>>
\* the assembly of environment and arguments, for the requests in flight
avars ==
  <<envsBack, envsLen, optsBack, optsLen, rq, apc, aidx, env, args, cmdArgs,
    procEnv>>
\* what the steps of one invocation leave alone
\* a chain of steps and the request that runs through it
cvars == <<pnext, stack, ran, quiet, lastOp, params>>
\* an entry and the timeouts of its steps, while routes are registered
bvars == <<ptimeout, eproc>>
\* what neither the invocation nor the assembly touches
\* the websocket processor, its connections and their goroutines
wsvars ==
  <<clients, alive, chanClosed, wpc, rholders, wholder, thpc, todo, fails,
    target, wsPanic>>
evars == <<cvars, bvars, wsvars>>
\* the stdin feeding routine and the stderr piping routine
fvars == <<fpc, fchunk, fend, bodyRead, stdinW, epc, elogged>>
ovars == <<avars, evars, fvars>>
gvars ==
  <<cproc, chainNext, gpc, pipeClosed, endBy, endCode, nsent, commitAtExit, lvars,
    ovars>>

\* a goroutine that panics without a recover ends the whole server process
Crashed == tpc = "panic"

\* ------------------------------------------------- http.ResponseWriter
LogWriteHeader(by, code) == [by |-> by, op |-> "WriteHeader", code |-> code, data |-> <<>>]
LogWrite(by, data) == [by |-> by, op |-> "Write", code |-> 0, data |-> data]

\* net/http checkWriteHeaderCode: WriteHeader panics on a code outside 100..999
ValidCode(code) == code >= 100 /\ code <= 999

\* the configured timeouts considered: none, and one millisecond count
Timeouts == {0, 1000}

\* -------------------------------------------------------------------- Init
\* the workers have not been started
InitWorkers ==
  /\ reads = <<>>
  /\ buf = <<>>
  /\ n = 0
  /\ isheader = TRUE
  /\ status = 200
  /\ hdr = <<>>
  /\ stop = FALSE
  /\ idx = NoMatch
  /\ tpc = "idle"
  /\ fpc = "idle" /\ fchunk = <<>> /\ fend = FALSE
  /\ bodyRead = <<>> /\ stdinW = <<>>
  /\ epc = "idle" /\ elogged = 0

\* a new NxContext and the response writer it is given
InitScope ==
  /\ resHeader = EmptyHeader
  /\ resLog = <<>>
  /\ wfail = FALSE
  /\ stopped = FALSE

\* no subprocess, no cancellation
InitSubprocess ==
  /\ pipeClosed = FALSE
  /\ endBy = "none"
  /\ endCode = 0
  /\ nsent = 0
  /\ commitAtExit = FALSE
  /\ pipeErr = "none"
  /\ sub = "none"
  /\ ctxDone = "no"

\* the gateway step is entered, with or without a step after it
InitInvocation ==
  /\ InitWorkers
  /\ InitScope
  /\ InitSubprocess
  /\ cproc = "cgi"
  /\ chainNext \in {"nil", "fn"}
  /\ gpc = "pipes"
  /\ timeout \in Timeouts

\* ------------------------------------------- the stdout piping routine
\* n, e := stdout.Read(buf) with n > 0, and the branch taken on it up to the
\* first use of the response writer or of ctx.IsStopped()
TReadChunk(c, e) ==
  /\ tpc = "read" /\ ~stop /\ ~Crashed
  /\ sub # "none" /\ ~pipeClosed
  /\ Len(reads) < MaxReads
  /\ reads' = Append(reads, c)
  /\ n' = Len(c)
  /\ buf' = ReadInto(buf, c)
  /\ stop' = e
  /\ IF isheader
     THEN LET ix == FindIndex(buf')
          IN IF ix.found
             THEN LET h == HdrOnFound(hdr, buf', ix)
                      r == ParseLines(Split(h),
                             [status |-> status, header |-> resHeader, panicked |-> FALSE])
                  IN /\ idx' = ix
                     /\ hdr' = h
                     /\ isheader' = FALSE
                     /\ status' = r.status
                     /\ resHeader' = r.header
                     /\ tpc' = IF r.panicked THEN "panic" ELSE "hdrcheck"
             ELSE /\ hdr' = hdr \o c
                  /\ UNCHANGED <<idx, isheader, status, resHeader, tpc>>
     ELSE /\ tpc' = "bodycheck"
          /\ UNCHANGED <<idx, isheader, status, resHeader, hdr>>
  /\ UNCHANGED <<resLog, wfail, stopped>>
  /\ UNCHANGED gvars

TRead(C) == \E c \in C, e \in BOOLEAN : TReadChunk(c, e)

\* stdout.Read returns no byte and an error (end of stream, closed pipe)
TReadEnd ==
  /\ tpc = "read" /\ ~stop /\ ~Crashed
  /\ sub # "none" \/ pipeClosed
  /\ n' = 0
  /\ stop' = TRUE
  /\ UNCHANGED <<reads, buf, isheader, status, hdr, idx, tpc>>
  /\ UNCHANGED <<resHeader, resLog, wfail, stopped>>
  /\ UNCHANGED gvars

\* ctx.IsStopped() read without synchronisation while another goroutine may
\* write the flag: once the flag is written, the read may return either value
StoppedReads == IF stopped THEN {TRUE, FALSE} ELSE {FALSE}

\* if !ctx.IsStopped() after the header lines
THdrCheck ==
  /\ tpc = "hdrcheck" /\ ~Crashed
  /\ \E r \in StoppedReads : tpc' = IF r THEN "read" ELSE "writeheader"
  /\ UNCHANGED <<reads, buf, n, isheader, status, hdr, stop, idx>>
  /\ UNCHANGED <<resHeader, resLog, wfail, stopped>>
  /\ UNCHANGED gvars

\* idx[1] < n-1: whether the bytes behind the separator are written
HasFirstBody(ix, cnt) == ix.hi < cnt - 1

\* w.WriteHeader(status)
TWriteHeader ==
  /\ tpc = "writeheader" /\ ~Crashed
  /\ IF ValidCode(status)
     THEN /\ resLog' = Append(resLog, LogWriteHeader("translator", status))
          /\ tpc' = IF HasFirstBody(idx, n) THEN "writebody0" ELSE "read"
     ELSE /\ tpc' = "panic"
          /\ UNCHANGED resLog
  /\ UNCHANGED <<reads, buf, n, isheader, status, hdr, stop, idx>>
  /\ UNCHANGED <<resHeader, wfail, stopped>>
  /\ UNCHANGED gvars

\* w.Write(buf[idx[1]:n]); an error sets stop
TWriteFirstBody(ok) ==
  /\ tpc = "writebody0" /\ ~Crashed
  /\ IF ok
     THEN /\ resLog' = Append(resLog, LogWrite("translator", SubSeq(buf, idx.hi + 1, n)))
          /\ UNCHANGED <<stop, wfail>>
     ELSE /\ stop' = TRUE
          /\ wfail' = TRUE
          /\ UNCHANGED resLog
  /\ tpc' = "read"
  /\ UNCHANGED <<reads, buf, n, isheader, status, hdr, idx>>
  /\ UNCHANGED <<resHeader, stopped>>
  /\ UNCHANGED gvars

\* if !ctx.IsStopped() in STREAMING_BODY
TBodyCheck ==
  /\ tpc = "bodycheck" /\ ~Crashed
  /\ \E r \in StoppedReads : tpc' = IF r THEN "read" ELSE "writebody"
  /\ UNCHANGED <<reads, buf, n, isheader, status, hdr, stop, idx>>
  /\ UNCHANGED <<resHeader, resLog, wfail, stopped>>
  /\ UNCHANGED gvars

\* w.Write(buf[:n]); an error sets stop
TWriteBody(ok) ==
  /\ tpc = "writebody" /\ ~Crashed
  /\ IF ok
     THEN /\ resLog' = Append(resLog, LogWrite("translator", SubSeq(buf, 1, n)))
          /\ UNCHANGED <<stop, wfail>>
     ELSE /\ stop' = TRUE
          /\ wfail' = TRUE
          /\ UNCHANGED resLog
  /\ tpc' = "read"
  /\ UNCHANGED <<reads, buf, n, isheader, status, hdr, idx>>
  /\ UNCHANGED <<resHeader, stopped>>
  /\ UNCHANGED gvars

\* the end of the loop that commits the pending status when no header block
\* was found
TExit_CommitPending ==
  /\ tpc = "read" /\ stop /\ ~Crashed
  /\ tpc' = "done"
  /\ resLog' = IF isheader
               THEN Append(resLog, LogWriteHeader("translator", status))
               ELSE resLog
  /\ UNCHANGED <<reads, buf, n, isheader, status, hdr, stop, idx>>
  /\ UNCHANGED <<resHeader, wfail, stopped>>
  /\ UNCHANGED gvars

\* the loop ends on stop; the deferred stdout.Close() runs
TExit ==
  /\ tpc = "read" /\ stop /\ ~Crashed
  /\ tpc' = "done"
  /\ UNCHANGED <<reads, buf, n, isheader, status, hdr, stop, idx>>
  /\ UNCHANGED <<resHeader, resLog, wfail, stopped>>
  /\ UNCHANGED gvars


\* ------------------------------------------- the stdin feeding routine
\* what the feeder and the collector leave alone
wframe ==
  <<tvars, resHeader, resLog, wfail, stopped, cproc, chainNext, gpc, pipeClosed,
    endBy, endCode, nsent, commitAtExit, lvars, avars, evars>>

\* the chunks r.Body.Read returns
BodyChunks == {<<>>, <<"a">>, <<"b", "c">>}

\* the write end of the stdin pipe is open and the subprocess, if it is
\* started, is there to read: cmd.Start has not failed, the subprocess has
\* not ended and cmd.Wait has not closed the pipe
StdinOpen == sub \in {"none", "running"} /\ ~pipeClosed

\* n, e := r.Body.Read(buf) that breaks on an error without the write of
\* buf[:n]
FRead_DropPartial(c, e) ==
  /\ fpc = "read" /\ ~Crashed
  /\ e \/ Len(bodyRead) < MaxBody
  /\ fchunk' = c /\ fend' = e
  /\ bodyRead' = Append(bodyRead, c)
  /\ fpc' = IF e THEN "close" ELSE "write"
  /\ UNCHANGED <<stdinW, epc, elogged>>
  /\ UNCHANGED wframe

\* n, e := r.Body.Read(buf): the chunk c, with or without an error (the end
\* of the body, a broken connection, a body closed by the server); on an
\* error with n = 0 the loop breaks
FRead(c, e) ==
  /\ fpc = "read" /\ ~Crashed
  /\ e \/ Len(bodyRead) < MaxBody
  /\ fchunk' = c /\ fend' = e
  /\ bodyRead' = Append(bodyRead, c)
  /\ fpc' = IF e /\ Len(c) = 0 THEN "close" ELSE "write"
  /\ UNCHANGED <<stdinW, epc, elogged>>
  /\ UNCHANGED wframe

\* stdin.Write(buf[:n]), its error ignored: the bytes reach the subprocess
\* only while the pipe is open, and not when the subprocess has closed its
\* end; after the write that follows an error of Read the loop breaks
FWrite(ok) ==
  /\ fpc = "write" /\ ~Crashed
  /\ ok => StdinOpen
  /\ stdinW' = Append(stdinW, [data |-> fchunk, ok |-> ok])
  /\ fpc' = IF fend THEN "close" ELSE "read"
  /\ UNCHANGED <<fchunk, fend, bodyRead, epc, elogged>>
  /\ UNCHANGED wframe

\* defer stdin.Close()
FClose ==
  /\ fpc = "close" /\ ~Crashed
  /\ fpc' = "exited"
  /\ UNCHANGED <<fchunk, fend, bodyRead, stdinW, epc, elogged>>
  /\ UNCHANGED wframe

\* ------------------------------------------ the stderr piping routine
\* n, e := stderr.Read(buf) without an error: log.Print(string(buf[:n]))
ERead ==
  /\ epc = "read" /\ ~Crashed
  /\ sub = "running" /\ ~pipeClosed
  /\ elogged < MaxErr
  /\ elogged' = elogged + 1
  /\ UNCHANGED <<fpc, fchunk, fend, bodyRead, stdinW, epc>>
  /\ UNCHANGED wframe

\* stderr.Read returns an error (end of stream, closed pipe): the loop
\* breaks and the deferred stderr.Close() runs
EReadEnd ==
  /\ epc = "read" /\ ~Crashed
  /\ sub # "none" \/ pipeClosed
  /\ epc' = "exited"
  /\ UNCHANGED <<fpc, fchunk, fend, bodyRead, stdinW, elogged>>
  /\ UNCHANGED wframe

\* ------------------------------------------------------ NxContext.End
\* if !self.stopped { self.stopped = true
EndSet ==
  /\ gpc = "end" /\ ~Crashed
  /\ IF ~stopped
     THEN /\ stopped' = TRUE
          /\ gpc' = "endwrite"
     ELSE /\ gpc' = "returned"
          /\ UNCHANGED stopped
  /\ UNCHANGED <<cproc, chainNext, pipeClosed, endBy, endCode, nsent>>
  /\ UNCHANGED <<resHeader, resLog, wfail>>
  /\ UNCHANGED tvars
  /\ UNCHANGED <<commitAtExit, lvars>>
  /\ UNCHANGED ovars

\* self.res.WriteHeader(status) }
EndWrite ==
  /\ gpc = "endwrite" /\ ~Crashed
  /\ resLog' = Append(resLog, LogWriteHeader(endBy, endCode))
  /\ gpc' = "returned"
  /\ UNCHANGED <<cproc, chainNext, pipeClosed, endBy, endCode, nsent>>
  /\ UNCHANGED <<resHeader, wfail, stopped>>
  /\ UNCHANGED tvars
  /\ UNCHANGED <<commitAtExit, lvars>>
  /\ UNCHANGED ovars

\* ------------------------------------------------ CgiProcessor.Process
\* the outcomes of the three pipe calls: all succeed, or the named one fails
PipeOutcomes == {"none", "stdin", "stdout", "stderr"}

\* the pipe setup without the test of the StderrPipe error
GPipes_NoStderrCheck(which) ==
  /\ gpc = "pipes"
  /\ pipeErr' = which
  /\ IF which \in {"stdin", "stdout"}
     THEN /\ stopped' = TRUE
          /\ resLog' = Append(resLog, LogWriteHeader("gateway", 500))
          /\ gpc' = "returned"
          /\ UNCHANGED <<tpc, fpc, epc>>
     ELSE /\ tpc' = "read" /\ fpc' = "read" /\ epc' = "read"
          /\ gpc' = "run"
          /\ UNCHANGED <<stopped, resLog>>
  /\ UNCHANGED <<reads, buf, n, isheader, status, hdr, stop, idx>>
  /\ UNCHANGED <<cproc, chainNext, pipeClosed, endBy, endCode, nsent>>
  /\ UNCHANGED <<resHeader, wfail>>
  /\ UNCHANGED <<commitAtExit, sub, timeout, ctxDone>>
  /\ UNCHANGED <<fchunk, fend, bodyRead, stdinW, elogged>>
  /\ UNCHANGED <<avars, evars>>

\* StdinPipe, StdoutPipe, StderrPipe: on an error of any of them End(500) and
\* return; otherwise the three routines are started
GPipes(which) ==
  /\ gpc = "pipes"
  /\ pipeErr' = which
  /\ IF which # "none"
     THEN /\ stopped' = TRUE
          /\ resLog' = Append(resLog, LogWriteHeader("gateway", 500))
          /\ gpc' = "returned"
          /\ UNCHANGED <<tpc, fpc, epc>>
     ELSE /\ tpc' = "read" /\ fpc' = "read" /\ epc' = "read"
          /\ gpc' = "run"
          /\ UNCHANGED <<stopped, resLog>>
  /\ UNCHANGED <<reads, buf, n, isheader, status, hdr, stop, idx>>
  /\ UNCHANGED <<cproc, chainNext, pipeClosed, endBy, endCode, nsent>>
  /\ UNCHANGED <<resHeader, wfail>>
  /\ UNCHANGED <<commitAtExit, sub, timeout, ctxDone>>
  /\ UNCHANGED <<fchunk, fend, bodyRead, stdinW, elogged>>
  /\ UNCHANGED <<avars, evars>>

\* the context the command is bound to is done: only a command made by
\* exec.CommandContext (timeout > 0) is bound to one
BoundCtxDone == timeout > 0 /\ ctxDone # "no"

\* cmd.Run(), first half: cmd.Start().  It fails when the binary cannot be
\* run or the bound context is already done; Start then closes the pipes and
\* Run returns the error: End(500).
GStart(ok) ==
  /\ gpc = "run" /\ ~Crashed
  /\ ok => ~BoundCtxDone
  /\ IF ok
     THEN /\ sub' = "running"
          /\ gpc' = "wait"
          /\ UNCHANGED <<pipeClosed, endBy, endCode>>
     ELSE /\ sub' = "nostart"
          /\ pipeClosed' = TRUE
          /\ gpc' = "end"
          /\ endBy' = "gateway"
          /\ endCode' = 500
  /\ UNCHANGED <<cproc, chainNext, nsent, commitAtExit, pipeErr, timeout, ctxDone>>
  /\ UNCHANGED <<resHeader, resLog, wfail, stopped>>
  /\ UNCHANGED tvars
  /\ UNCHANGED ovars

\* the subprocess exits by itself with the exit status code
SubExit(code) ==
  /\ sub = "running" /\ ~Crashed
  /\ sub' = IF code = 0 THEN "exit0" ELSE "exit1"
  /\ UNCHANGED <<pipeErr, timeout, ctxDone>>
  /\ UNCHANGED <<cproc, chainNext, gpc, pipeClosed, endBy, endCode, nsent, commitAtExit>>
  /\ UNCHANGED <<resHeader, resLog, wfail, stopped>>
  /\ UNCHANGED tvars
  /\ UNCHANGED ovars

\* the client goes away while the gateway is at work: r.Context() is cancelled
ReqCancel ==
  /\ ctxDone = "no" /\ ~Crashed
  /\ gpc \in {"pipes", "run", "wait"} /\ sub \in {"none", "running"}
  /\ ctxDone' = "cancelled"
  /\ UNCHANGED <<pipeErr, sub, timeout>>
  /\ UNCHANGED <<cproc, chainNext, gpc, pipeClosed, endBy, endCode, nsent, commitAtExit>>
  /\ UNCHANGED <<resHeader, resLog, wfail, stopped>>
  /\ UNCHANGED tvars
  /\ UNCHANGED ovars

\* the deadline of context.WithTimeout passes
Expire ==
  /\ timeout > 0 /\ ctxDone = "no" /\ ~Crashed
  /\ gpc \in {"pipes", "run", "wait"} /\ sub \in {"none", "running"}
  /\ ctxDone' = "expired"
  /\ UNCHANGED <<pipeErr, sub, timeout>>
  /\ UNCHANGED <<cproc, chainNext, gpc, pipeClosed, endBy, endCode, nsent, commitAtExit>>
  /\ UNCHANGED <<resHeader, resLog, wfail, stopped>>
  /\ UNCHANGED tvars
  /\ UNCHANGED ovars

\* os/exec kills the process of a command whose bound context is done
Kill ==
  /\ sub = "running" /\ ~Crashed
  /\ BoundCtxDone
  /\ sub' = "killed"
  /\ UNCHANGED <<pipeErr, timeout, ctxDone>>
  /\ UNCHANGED <<cproc, chainNext, gpc, pipeClosed, endBy, endCode, nsent, commitAtExit>>
  /\ UNCHANGED <<resHeader, resLog, wfail, stopped>>
  /\ UNCHANGED tvars
  /\ UNCHANGED ovars

\* the error cmd.Wait reports for a subprocess that has ended
WaitErr == sub # "exit0"

\* the gateway advances whatever cmd.Run returned
GRunReturn_AlwaysNext(err) ==
  /\ gpc = "wait" /\ ~Crashed
  /\ sub \in {"exit0", "exit1", "killed"}
  /\ err = WaitErr
  /\ pipeClosed' = TRUE
  /\ gpc' = "runnext"
  /\ UNCHANGED <<endBy, endCode>>
  /\ UNCHANGED <<cproc, chainNext, nsent, lvars>>
  /\ UNCHANGED <<resHeader, resLog, wfail, stopped>>
  /\ UNCHANGED tvars
  /\ commitAtExit' = \E i \in 1..Len(resLog) :
                       resLog[i].by = "translator" /\ resLog[i].op = "WriteHeader"
  /\ UNCHANGED ovars

\* cmd.Run(), second half: cmd.Wait() returns once the subprocess has ended,
\* having closed the pipes; on an error End(500), else RunNext()
GRunReturn(err) ==
  /\ gpc = "wait" /\ ~Crashed
  /\ sub \in {"exit0", "exit1", "killed"}
  /\ err = WaitErr
  /\ pipeClosed' = TRUE
  /\ IF err
     THEN /\ gpc' = "end"
          /\ endBy' = "gateway"
          /\ endCode' = 500
     ELSE /\ gpc' = "runnext"
          /\ UNCHANGED <<endBy, endCode>>
  /\ UNCHANGED <<cproc, chainNext, nsent, lvars>>
  /\ UNCHANGED <<resHeader, resLog, wfail, stopped>>
  /\ UNCHANGED tvars
  /\ commitAtExit' = \E i \in 1..Len(resLog) :
                       resLog[i].by = "translator" /\ resLog[i].op = "WriteHeader"
  /\ UNCHANGED ovars

\* ---------------------------------------------------- NxContext.RunNext
GRunNext ==
  /\ gpc = "runnext" /\ ~Crashed
  /\ IF cproc # "nil" /\ ~stopped /\ chainNext # "nil"
     THEN /\ cproc' = chainNext
          /\ gpc' = "next"
     ELSE /\ gpc' = "returned"
          /\ UNCHANGED cproc
  /\ UNCHANGED <<chainNext, pipeClosed, endBy, endCode, nsent>>
  /\ UNCHANGED <<resHeader, resLog, wfail, stopped>>
  /\ UNCHANGED tvars
  /\ UNCHANGED <<commitAtExit, lvars>>
  /\ UNCHANGED ovars

\* ------------------------------- the step after the gateway (fnProc.Process)
NextBytes == <<"n">>
NextCode == 403

\* the handler calls ctx.SendBytes(b): self.res.Write(b)
NextSend ==
  /\ gpc = "next" /\ ~Crashed
  /\ nsent < MaxNextSend
  /\ nsent' = nsent + 1
  /\ resLog' = Append(resLog, LogWrite("next", NextBytes))
  /\ UNCHANGED <<cproc, chainNext, gpc, pipeClosed, endBy, endCode>>
  /\ UNCHANGED <<resHeader, wfail, stopped>>
  /\ UNCHANGED tvars
  /\ UNCHANGED <<commitAtExit, lvars>>
  /\ UNCHANGED ovars

\* the handler calls ctx.End(code)
NextEnd ==
  /\ gpc = "next" /\ ~Crashed
  /\ gpc' = "end"
  /\ endBy' = "next"
  /\ endCode' = NextCode
  /\ UNCHANGED <<cproc, chainNext, pipeClosed, nsent>>
  /\ UNCHANGED <<resHeader, resLog, wfail, stopped>>
  /\ UNCHANGED tvars
  /\ UNCHANGED <<commitAtExit, lvars>>
  /\ UNCHANGED ovars

\* the handler returns
NextReturn ==
  /\ gpc = "next" /\ ~Crashed
  /\ gpc' = "returned"
  /\ UNCHANGED <<cproc, chainNext, pipeClosed, endBy, endCode, nsent>>
  /\ UNCHANGED <<resHeader, resLog, wfail, stopped>>
  /\ UNCHANGED tvars
  /\ UNCHANGED <<commitAtExit, lvars>>
  /\ UNCHANGED ovars

\* --------------------------------------- environment and argument assembly
\* strings.ToUpper
ToUpper(s) == [i \in 1..Len(s) |-> ToUpperByte(s[i])]
\* strings.Replace(s, "-", "_", -1)
HyphensToUnderscores(s) == [i \in 1..Len(s) |-> IF s[i] = "-" THEN "_" ELSE s[i]]
\* name := strings.Replace(strings.ToUpper(k), "-", "_", -1)
EnvName(k) == HyphensToUnderscores(ToUpper(k))
\* fmt.Sprintf("%s=%s", name, val)
Kv(name, val) == name \o <<"=">> \o val
HttpUnderscore == <<"H","T","T","P","_">>

\* strings.Split(s, sep) for a one-byte separator
RECURSIVE SplitOn(_, _)
SplitOn(s, c) ==
  LET p == IndexByte(s, c)
  IN IF p = 0 THEN <<s>>
     ELSE <<SubSeq(s, 1, p - 1)>> \o SplitOn(SubSeq(s, p + 1, Len(s)), c)

\* fmt.Sprintf("%d", k)
RECURSIVE NatStr(_)
NatStr(k) ==
  IF k < 10 THEN <<Digits[k + 1]>>
  ELSE NatStr(k \div 10) \o <<Digits[(k % 10) + 1]>>
IntStr(k) == IF k < 0 THEN <<"-">> \o NatStr(0 - k) ELSE NatStr(k)

ServerProtocol == <<"S","E","R","V","E","R","_","P","R","O","T","O","C","O","L","=","H","T","T","P","/","1",".","1">>
GatewayInterface == <<"G","A","T","E","W","A","Y","_","I","N","T","E","R","F","A","C","E","=","C","G","I","/","1",".","1">>
PathInfo == <<"P","A","T","H","_","I","N","F","O">>
RequestMethod == <<"R","E","Q","U","E","S","T","_","M","E","T","H","O","D">>
QueryString == <<"Q","U","E","R","Y","_","S","T","R","I","N","G">>
ContentLength == <<"C","O","N","T","E","N","T","_","L","E","N","G","T","H">>
ServerName == <<"S","E","R","V","E","R","_","N","A","M","E">>
ServerPort == <<"S","E","R","V","E","R","_","P","O","R","T">>
ServerPort80 == <<"S","E","R","V","E","R","_","P","O","R","T","=","8","0">>

\* hp := strings.Split(r.Host, ":") and the SERVER_NAME, SERVER_PORT entries
HostItems(host) ==
  LET hp == SplitOn(host, COLON)
  IN <<Kv(ServerName, hp[1]),
       IF Len(hp) > 1 THEN Kv(ServerPort, hp[2]) ELSE ServerPort80>>

\* the two entries of every value of the header k, in the order of the values
RECURSIVE ValueItems(_, _)
ValueItems(k, vs) ==
  IF Len(vs) = 0 THEN <<>>
  ELSE <<Kv(EnvName(k), Head(vs)), Kv(HttpUnderscore \o EnvName(k), Head(vs))>>
         \o ValueItems(k, Tail(vs))
\* for k, vs := range r.Header, the map being gone through in the order given
RECURSIVE HeaderItems(_, _)
HeaderItems(h, order) ==
  IF Len(order) = 0 THEN <<>>
  ELSE ValueItems(Head(order), h[Head(order)]) \o HeaderItems(h, Tail(order))

\* the entries the invocation appends to env, in the order of the appends
EnvItems(r) ==
  <<ServerProtocol, GatewayInterface, Kv(PathInfo, r.path),
    Kv(RequestMethod, r.method), Kv(QueryString, r.query),
    Kv(ContentLength, IntStr(r.clen))>>
    \o HostItems(r.host) \o HeaderItems(r.header, r.horder)

\* ------------------------------------------------- slices and append
\* the capacity append gives a slice of capacity cap that must hold need
\* elements (runtime.growslice, small slices of strings)
AppendCap(cap, need) ==
  IF need <= cap THEN cap ELSE IF need <= 2 * cap THEN 2 * cap ELSE need

\* A slice made by s[:] of a field of the processor shares the backing array
\* of the field (sh) until an append outgrows the capacity; from then on
\* it has an array of its own (priv).
SliceOfField(len) == [sh |-> TRUE, len |-> len, priv |-> <<>>]
Contents(sl, back) == IF sl.sh THEN SubSeq(back, 1, sl.len) ELSE sl.priv
InPlace(sl, back, items) == sl.sh /\ sl.len + Len(items) <= Len(back)
\* append(sl, items...): the slice returned, and the backing array afterwards
AppendSlice(sl, back, items) ==
  IF InPlace(sl, back, items) THEN [sl EXCEPT !.len = @ + Len(items)]
  ELSE [sh |-> FALSE, len |-> sl.len + Len(items),
        priv |-> Contents(sl, back) \o items]
AppendBack(sl, back, items) ==
  IF InPlace(sl, back, items)
  THEN [i \in 1..Len(back) |->
          IF i > sl.len /\ i <= sl.len + Len(items) THEN items[i - sl.len] ELSE back[i]]
  ELSE back

\* --------------------------------------------- NewCgiProcessor and addcgi
\* the i-th entry of the configured environment; the first has the name
\* that the request header X-Foo gives
FixedEnvEntry(i) ==
  IF i = 1 THEN <<"X","_","F","O","O","=","f","i","x","e","d">> ELSE <<"F", LowerLetters[i], "=", "1">>
\* the capacity of envs after m appends of one entry to make([]string, 0)
RECURSIVE EnvsCap(_)
EnvsCap(m) == IF m = 0 THEN 0 ELSE AppendCap(EnvsCap(m - 1), m)
EnvsBackOf(m) ==
  [i \in 1..EnvsCap(m) |-> IF i <= m THEN FixedEnvEntry(i) ELSE <<>>]
\* the sizes of the configured environment considered
EnvConfSizes == {0, 23}

\* opts after the []string arguments gs of addcgi: one append per argument
RECURSIVE OptsOf(_)
OptsOf(gs) ==
  IF Len(gs) = 0 THEN <<>>
  ELSE OptsOf(SubSeq(gs, 1, Len(gs) - 1)) \o gs[Len(gs)]
RECURSIVE OptsCap(_)
OptsCap(gs) ==
  IF Len(gs) = 0 THEN 0
  ELSE AppendCap(OptsCap(SubSeq(gs, 1, Len(gs) - 1)), Len(OptsOf(gs)))
OptsBackOf(gs) ==
  [i \in 1..OptsCap(gs) |-> IF i <= Len(OptsOf(gs)) THEN OptsOf(gs)[i] ELSE ""]
\* the []string arguments considered: none, one list, two lists
OptsConfs == {<<>>, <<<<"--mode", "x">>>>, <<<<"--mode", "x">>, <<"-v">>>>}

\* ------------------------------------------------------------ requests
ReqIds == {"A", "B"}
NoHeader == [x \in {} |-> <<>>]
HdrXFoo == <<"X","-","F","o","o">>
HdrAccept == <<"A","c","c","e","p","t">>
\* the request headers considered, each with an order of map iteration
HeaderChoices ==
  {[header |-> NoHeader, horder |-> <<>>],
   [header |-> [x \in {HdrXFoo} |-> <<<<"b","a","r">>>>], horder |-> <<HdrXFoo>>],
   [header |-> [x \in {HdrAccept} |-> <<<<"a">>, <<"b">>>>], horder |-> <<HdrAccept>>],
   [header |-> [x \in {HdrXFoo, HdrAccept} |-> IF x = HdrXFoo THEN <<<<"b","a","r">>>> ELSE <<<<"a">>>>],
    horder |-> <<HdrXFoo, HdrAccept>>],
   [header |-> [x \in {HdrXFoo, HdrAccept} |-> IF x = HdrXFoo THEN <<<<"b","a","r">>>> ELSE <<<<"a">>>>],
    horder |-> <<HdrAccept, HdrXFoo>>]}

\* Host values: a name, a name with a port, an IPv6 literal without and
\* with a port
HostName == <<"a","p","i",".","e","x","a","m","p","l","e",".","c","o","m">>
HostNamePort == <<"h",":","8","1">>
HostV6 == <<"[",":",":","1","]">>
HostV6Port == <<"[",":",":","1","]",":","8","1">>
Hosts == {HostName, HostNamePort, HostV6, HostV6Port}

\* ctx.GetData("cgi:options"): nil, a []string, a value of another type
NoOptions == [kind |-> "nil", val |-> <<>>]
OptionChoices ==
  {NoOptions, [kind |-> "strings", val |-> <<"-o", "-p">>],
   [kind |-> "other", val |-> <<"-o">>]}

\* the route-match parameters: up to MaxParams captures
ParamChoices == UNION {[1..k -> {"42", "7"}] : k \in 0..MaxParams}

\* GET /report?x=1 with Host api.example.com and the route parameter 42
ReqExample1 ==
  [host |-> HostName, header |-> NoHeader, horder |-> <<>>,
   path |-> <<"/","r","e","p","o","r","t">>, method |-> <<"G","E","T">>, query |-> <<"x","=","1">>, clen |-> 0,
   options |-> NoOptions, params |-> <<"42">>]
\* the requests considered: ReqExample1 with one of its parts replaced
Requests ==
  {[ReqExample1 EXCEPT !.host = h] : h \in Hosts}
    \cup {[ReqExample1 EXCEPT !.header = c.header, !.horder = c.horder] :
            c \in HeaderChoices}
    \cup {[ReqExample1 EXCEPT !.options = o] : o \in OptionChoices}
    \cup {[ReqExample1 EXCEPT !.params = ps] : ps \in ParamChoices}
\* a request for the same path that runs through the same gateway at the
\* same time, from another client
ReqOther ==
  [ReqExample1 EXCEPT
     !.host = <<"o",":","9">>,
     !.header = [x \in {<<"X","-","B">>} |-> <<<<"q">>>>], !.horder = <<<<"X","-","B">>>>,
     !.options = [kind |-> "strings", val |-> <<"-b">>],
     !.params = <<"43">>]

\* no request is being assembled
AssembleIdle ==
  /\ envsBack = <<>> /\ envsLen = 0
  /\ optsBack = <<>> /\ optsLen = 0
  /\ rq = <<>> /\ apc = <<>> /\ aidx = <<>>
  /\ env = <<>> /\ args = <<>> /\ cmdArgs = <<>> /\ procEnv = <<>>

\* a gateway built by addcgi and NewCgiProcessor, and two requests at the
\* start of Process: env := self.envs[:]
AssembleInit ==
  /\ \E m \in EnvConfSizes : envsBack = EnvsBackOf(m) /\ envsLen = m
  /\ \E gs \in OptsConfs : optsBack = OptsBackOf(gs) /\ optsLen = Len(OptsOf(gs))
  /\ \E r \in Requests : rq = [id \in ReqIds |-> IF id = "A" THEN r ELSE ReqOther]
  /\ apc = [id \in ReqIds |-> "env"]
  /\ aidx = [id \in ReqIds |-> 0]
  /\ env = [id \in ReqIds |-> SliceOfField(envsLen)]
  /\ args = [id \in ReqIds |-> SliceOfField(optsLen)]
  /\ cmdArgs = [id \in ReqIds |-> <<>>]
  /\ procEnv = [id \in ReqIds |-> <<>>]

\* The appends of a loop, from the k-th item on, that make one step: an
\* append that writes into the shared backing array is a step of its own;
\* the append that outgrows it copies the slice, and that append and all the
\* later ones, which touch the request's own array only, are one step.
StepItems(sl, back, items, k) ==
  IF InPlace(sl, back, <<items[k + 1]>>) THEN <<items[k + 1]>>
  ELSE SubSeq(items, k + 1, Len(items))

\* env = append(env, ...); after the last entry args := self.opts[:]
AEnvAppend(id) ==
  /\ apc[id] = "env"
  /\ LET its == StepItems(env[id], envsBack, EnvItems(rq[id]), aidx[id])
     IN /\ env' = [env EXCEPT ![id] = AppendSlice(@, envsBack, its)]
        /\ envsBack' = AppendBack(env[id], envsBack, its)
        /\ IF aidx[id] + Len(its) = Len(EnvItems(rq[id]))
           THEN /\ apc' = [apc EXCEPT ![id] = "options"]
                /\ aidx' = [aidx EXCEPT ![id] = 0]
           ELSE /\ aidx' = [aidx EXCEPT ![id] = @ + Len(its)]
                /\ UNCHANGED apc
  /\ UNCHANGED <<envsLen, optsBack, optsLen, rq, args, cmdArgs, procEnv>>
  /\ UNCHANGED <<tvars, cproc, chainNext, gpc, pipeClosed, endBy, endCode, nsent,
                 commitAtExit, lvars, resHeader, resLog, wfail, stopped, evars, fvars>>

\* the value under "cgi:options" is appended when it is a []string
IsStringSlice(o) == o.kind = "strings"

\* if oo := ctx.GetData("cgi:options"); oo != nil { if ss, ok := ...([]string)
AOptions(id) ==
  /\ apc[id] = "options"
  /\ IF IsStringSlice(rq[id].options)
     THEN /\ args' = [args EXCEPT ![id] = AppendSlice(@, optsBack, rq[id].options.val)]
          /\ optsBack' = AppendBack(args[id], optsBack, rq[id].options.val)
     ELSE UNCHANGED <<args, optsBack>>
  /\ apc' = [apc EXCEPT ![id] = IF Len(rq[id].params) = 0 THEN "exec" ELSE "params"]
  /\ UNCHANGED <<envsBack, envsLen, optsLen, rq, aidx, env, cmdArgs, procEnv>>
  /\ UNCHANGED <<tvars, cproc, chainNext, gpc, pipeClosed, endBy, endCode, nsent,
                 commitAtExit, lvars, resHeader, resLog, wfail, stopped, evars, fvars>>

\* for _, v := range ctx.UrlParams() { args = append(args, v) }
AParam(id) ==
  /\ apc[id] = "params"
  /\ LET its == StepItems(args[id], optsBack, rq[id].params, aidx[id])
     IN /\ args' = [args EXCEPT ![id] = AppendSlice(@, optsBack, its)]
        /\ optsBack' = AppendBack(args[id], optsBack, its)
        /\ IF aidx[id] + Len(its) = Len(rq[id].params)
           THEN /\ apc' = [apc EXCEPT ![id] = "exec"]
                /\ aidx' = [aidx EXCEPT ![id] = 0]
           ELSE /\ aidx' = [aidx EXCEPT ![id] = @ + Len(its)]
                /\ UNCHANGED apc
  /\ UNCHANGED <<envsBack, envsLen, optsLen, rq, env, cmdArgs, procEnv>>
  /\ UNCHANGED <<tvars, cproc, chainNext, gpc, pipeClosed, endBy, endCode, nsent,
                 commitAtExit, lvars, resHeader, resLog, wfail, stopped, evars, fvars>>

\* exec.Command(self.bin, args...) copies the arguments; cmd.Env = env
AExec(id) ==
  /\ apc[id] = "exec"
  /\ cmdArgs' = [cmdArgs EXCEPT ![id] = Contents(args[id], optsBack)]
  /\ apc' = [apc EXCEPT ![id] = "run"]
  /\ UNCHANGED <<envsBack, envsLen, optsBack, optsLen, rq, aidx, env, args, procEnv>>
  /\ UNCHANGED <<tvars, cproc, chainNext, gpc, pipeClosed, endBy, endCode, nsent,
                 commitAtExit, lvars, resHeader, resLog, wfail, stopped, evars, fvars>>

\* cmd.Run() starts the subprocess with the entries cmd.Env holds then
ARun(id) ==
  /\ apc[id] = "run"
  /\ procEnv' = [procEnv EXCEPT ![id] = Contents(env[id], envsBack)]
  /\ apc' = [apc EXCEPT ![id] = "done"]
  /\ UNCHANGED <<envsBack, envsLen, optsBack, optsLen, rq, aidx, env, args, cmdArgs>>
  /\ UNCHANGED <<tvars, cproc, chainNext, gpc, pipeClosed, endBy, endCode, nsent,
                 commitAtExit, lvars, resHeader, resLog, wfail, stopped, evars, fvars>>

\* ------------------------------------------------------- chains of steps
\* The processors of a chain are numbered from 1; 0 stands for nil.
Procs == 1..MaxChain
NoProc == 0

\* the chain of L function steps 1 -> 2 -> ... -> L, as Use links them
LinearChain(L) == [i \in Procs |-> IF i < L THEN i + 1 ELSE NoProc]

\* no chain is being built or run
ChainIdle ==
  /\ pnext = <<>> /\ stack = <<>> /\ ran = <<>> /\ quiet = {}
  /\ lastOp = [op |-> "none"]
  /\ params = <<>>
  /\ ptimeout = <<>> /\ eproc = NoProc

\* the handler of step p is entered
Frame(p) == [proc |-> p, ops |-> 0, nexted |-> FALSE, ended |-> FALSE]
Top == stack[Len(stack)]
\* the running handler has made one more call; f changes its frame
Called(f) == [stack EXCEPT ![Len(stack)] = f]

\* BaseEntry.Exec: the context is made with cproc = self.proc, and
\* self.proc.Process(ctx) is called
ChainInit ==
  /\ \E L \in Procs : pnext = LinearChain(L)
  /\ cproc = 1
  /\ stack = <<Frame(1)>>
  /\ ran = <<1>>
  /\ quiet = {}
  /\ lastOp = [op |-> "Exec", code |-> 0, was |-> FALSE]
  /\ params \in ParamChoices
  /\ ptimeout = [i \in Procs |-> 0] /\ eproc = 1

\* what the calls of a handler leave alone
cframe ==
  <<tvars, wfail, chainNext, gpc, pipeClosed, endBy, endCode, nsent,
    commitAtExit, lvars, avars, params, bvars, fvars, wsvars>>

\* the status codes the handlers end with
EndCodes == {403, 500}

\* End without the test of the stopped flag
CEnd_NoGuard(code) ==
  /\ stack # <<>> /\ Top.ops < MaxOps
  /\ stopped' = TRUE
  /\ resLog' = Append(resLog, LogWriteHeader("step", code))
  /\ stack' = Called([Top EXCEPT !.ops = @ + 1, !.ended = TRUE])
  /\ lastOp' = [op |-> "End", code |-> code, was |-> stopped]
  /\ UNCHANGED <<cproc, resHeader, pnext, ran, quiet>>
  /\ UNCHANGED cframe

\* a handler calls ctx.End(code)
CEnd(code) ==
  /\ stack # <<>> /\ Top.ops < MaxOps
  /\ IF ~stopped
     THEN /\ stopped' = TRUE
          /\ resLog' = Append(resLog, LogWriteHeader("step", code))
     ELSE UNCHANGED <<stopped, resLog>>
  /\ stack' = Called([Top EXCEPT !.ops = @ + 1, !.ended = TRUE])
  /\ lastOp' = [op |-> "End", code |-> code, was |-> stopped]
  /\ UNCHANGED <<cproc, resHeader, pnext, ran, quiet>>
  /\ UNCHANGED cframe

Location == <<"L","o","c","a","t","i","o","n">>
SignIn == <<"/","u","i","/","s","i","g","n","i","n">>
\* the body http.Redirect writes for a GET request
RedirectBody == <<"M","o","v","e","d"," ","P","e","r","m","a","n","e","n","t","l","y">>

\* a handler calls ctx.Redirect(url): whatever url is, http.Redirect to
\* "/ui/signin" with status 301
CRedirect ==
  /\ stack # <<>> /\ Top.ops < MaxOps
  /\ IF ~stopped
     THEN /\ stopped' = TRUE
          /\ resHeader' = HeaderSet(resHeader, Location, SignIn)
          /\ resLog' = resLog \o <<LogWriteHeader("step", 301), LogWrite("step", RedirectBody)>>
     ELSE UNCHANGED <<stopped, resHeader, resLog>>
  /\ stack' = Called([Top EXCEPT !.ops = @ + 1, !.ended = TRUE])
  /\ lastOp' = [op |-> "Redirect", code |-> 301, was |-> stopped]
  /\ UNCHANGED <<cproc, pnext, ran, quiet>>
  /\ UNCHANGED cframe

\* RunNext without the test of the stopped flag
CRunNext_IgnoreStopped ==
  /\ stack # <<>> /\ Top.ops < MaxOps
  /\ IF cproc # NoProc /\ pnext[cproc] # NoProc
     THEN /\ cproc' = pnext[cproc]
          /\ stack' = Append(Called([Top EXCEPT !.ops = @ + 1, !.nexted = TRUE]),
                             Frame(pnext[cproc]))
          /\ ran' = Append(ran, pnext[cproc])
     ELSE /\ stack' = Called([Top EXCEPT !.ops = @ + 1, !.nexted = TRUE])
          /\ UNCHANGED <<cproc, ran>>
  /\ lastOp' = [op |-> "RunNext", code |-> 0, was |-> stopped]
  /\ UNCHANGED <<stopped, resHeader, resLog, pnext, quiet>>
  /\ UNCHANGED cframe

\* a handler calls ctx.RunNext(): if self.cproc != nil && !self.stopped {
\* if p := self.cproc.getnext(); p != nil { self.cproc = p; p.Process(self) } }
CRunNext ==
  /\ stack # <<>> /\ Top.ops < MaxOps
  /\ IF cproc # NoProc /\ ~stopped /\ pnext[cproc] # NoProc
     THEN /\ cproc' = pnext[cproc]
          /\ stack' = Append(Called([Top EXCEPT !.ops = @ + 1, !.nexted = TRUE]),
                             Frame(pnext[cproc]))
          /\ ran' = Append(ran, pnext[cproc])
     ELSE /\ stack' = Called([Top EXCEPT !.ops = @ + 1, !.nexted = TRUE])
          /\ UNCHANGED <<cproc, ran>>
  /\ lastOp' = [op |-> "RunNext", code |-> 0, was |-> stopped]
  /\ UNCHANGED <<stopped, resHeader, resLog, pnext, quiet>>
  /\ UNCHANGED cframe

\* a handler calls ctx.SendBytes(b): self.res.Write(b)
CSend ==
  /\ stack # <<>> /\ Top.ops < MaxOps
  /\ resLog' = Append(resLog, LogWrite("step", NextBytes))
  /\ stack' = Called([Top EXCEPT !.ops = @ + 1])
  /\ lastOp' = [op |-> "Send", code |-> 0, was |-> stopped]
  /\ UNCHANGED <<cproc, stopped, resHeader, pnext, ran, quiet>>
  /\ UNCHANGED cframe

\* the indexes the handlers ask for: one below, and one past, the valid ones
IdxChoices == -1..MaxParams

\* Go's index expression: a panic outside 0..len-1
IndexPanics(s, i) == i < 0 \/ i >= Len(s)

\* http.StatusText(500)
StatusText500 == <<"I","n","t","e","r","n","a","l"," ","S","e","r","v","e","r"," ","E","r","r","o","r">>

\* a handler calls ctx.UrlParam(i): if idx < len(self.params) { return
\* self.params[idx] } else { return "" }.  The index expression panics for a
\* negative idx; the panic unwinds every running handler up to the recover of
\* NxHandler.ServeHTTP, which writes the status 500 and its text.
CUrlParam(i) ==
  /\ stack # <<>> /\ Top.ops < MaxOps
  /\ IF i < Len(params)
     THEN IF IndexPanics(params, i)
          THEN /\ lastOp' = [op |-> "UrlParam", code |-> 0, was |-> stopped,
                             idx |-> i, ret |-> "", panicked |-> TRUE]
               /\ stack' = <<>>
               /\ resLog' = resLog \o <<LogWriteHeader("recover", 500),
                                        LogWrite("recover", StatusText500)>>
          ELSE /\ lastOp' = [op |-> "UrlParam", code |-> 0, was |-> stopped,
                             idx |-> i, ret |-> params[i + 1], panicked |-> FALSE]
               /\ stack' = Called([Top EXCEPT !.ops = @ + 1])
               /\ UNCHANGED resLog
     ELSE /\ lastOp' = [op |-> "UrlParam", code |-> 0, was |-> stopped,
                        idx |-> i, ret |-> "", panicked |-> FALSE]
          /\ stack' = Called([Top EXCEPT !.ops = @ + 1])
          /\ UNCHANGED resLog
  /\ UNCHANGED <<cproc, stopped, resHeader, pnext, ran, quiet>>
  /\ UNCHANGED cframe

\* a handler returns: fnProc.Process returns to the RunNext or the Exec that
\* called it
CReturn ==
  /\ stack # <<>>
  /\ stack' = SubSeq(stack, 1, Len(stack) - 1)
  /\ quiet' = IF ~Top.nexted /\ ~Top.ended THEN quiet \cup {Top.proc} ELSE quiet
  /\ lastOp' = [op |-> "Return", code |-> 0, was |-> stopped]
  /\ UNCHANGED <<cproc, stopped, resHeader, resLog, pnext, ran>>
  /\ UNCHANGED cframe

\* ------------------------------------------------- building a chain
\* the processors made while the routes of one entry are registered
Steps == {1, 2, 3}

\* processors just made: none has a successor
BuildInit ==
  /\ pnext = [i \in Steps |-> NoProc]
  /\ stack = <<>> /\ ran = <<>> /\ quiet = {}
  /\ lastOp = [op |-> "none"]
  /\ params = <<>>
  /\ ptimeout = [i \in Steps |-> 0] /\ eproc = NoProc

\* the step reached from p by k successor links (nil once the chain has ended)
RECURSIVE Walk(_, _, _)
Walk(pn, p, k) ==
  IF k = 0 \/ p = NoProc THEN p ELSE Walk(pn, pn[p], k - 1)

\* the loop  for ; p != nil; p = p.getnext()  never ends: among Len(pn)
\* processors, Len(pn) links without reaching nil have met a step twice
Cyclic(pn, p) == p # NoProc /\ Walk(pn, p, Len(pn)) # NoProc

\* the steps such a loop visits
Reach(pn, p) == {Walk(pn, p, k) : k \in 0..(Len(pn) - 1)} \ {NoProc}

\* tailof in Use:  for ; p.getnext() != nil; p = p.getnext() {}  return p
tailof(pn, p) == CHOOSE q \in Reach(pn, p) : pn[q] = NoProc

\* a loop over a chain with a cycle keeps the building goroutine for ever
Hung == lastOp.op # "none" /\ lastOp.hung

\* what the building calls leave alone
bframe ==
  <<tvars, wfail, chainNext, gpc, pipeClosed, endBy, endCode, nsent,
    commitAtExit, lvars, avars, params, cproc, stopped, resHeader, resLog,
    stack, ran, quiet, fvars, wsvars>>

\* Then that replaces a successor already set
Then_Overwrite(a, b) ==
  /\ ~Hung
  /\ pnext' = [pnext EXCEPT ![a] = b]
  /\ lastOp' = [op |-> "Then", recv |-> a, arg |-> b, panicked |-> FALSE,
                ret |-> b, hung |-> FALSE]
  /\ UNCHANGED <<cproc, stopped, resHeader, resLog, stack, ran, quiet>>
  /\ UNCHANGED cframe

\* a.Then(b): log.Panicf when a.next is set already; else a.next = b, return b
Then(a, b) ==
  /\ ~Hung
  /\ IF pnext[a] # NoProc
     THEN /\ lastOp' = [op |-> "Then", recv |-> a, arg |-> b,
                        panicked |-> TRUE, ret |-> NoProc, hung |-> FALSE]
          /\ UNCHANGED pnext
     ELSE /\ pnext' = [pnext EXCEPT ![a] = b]
          /\ lastOp' = [op |-> "Then", recv |-> a, arg |-> b,
                        panicked |-> FALSE, ret |-> b, hung |-> FALSE]
  /\ UNCHANGED <<cproc, stopped, resHeader, resLog, stack, ran, quiet>>
  /\ UNCHANGED cframe

\* the first loop of Use: for i > 0, tailof(ps[i-1]).Then(ps[i]); the Then of
\* a tail finds no successor and links
RECURSIVE UseChain(_, _, _)
UseChain(pn, ps, i) ==
  IF i > Len(ps) THEN [pn |-> pn, hung |-> FALSE]
  ELSE IF Cyclic(pn, ps[i - 1]) THEN [pn |-> pn, hung |-> TRUE]
  ELSE UseChain([pn EXCEPT ![tailof(pn, ps[i - 1])] = ps[i]], ps, i + 1)

\* the processors a call of Use is given
UseArgs == UNION {[1..k -> Steps] : k \in 1..MaxUse}

\* Use with any tag for the history
UseAs(tag, ps) ==
  /\ ~Hung
  /\ LET c == UseChain(pnext, ps, 2) IN
       IF c.hung
       THEN /\ pnext' = c.pn /\ UNCHANGED eproc
            /\ lastOp' = [op |-> tag, hung |-> TRUE]
       ELSE IF eproc = NoProc
       THEN /\ pnext' = c.pn /\ eproc' = ps[1]
            /\ lastOp' = [op |-> tag, hung |-> FALSE]
       ELSE IF Cyclic(c.pn, eproc)
       THEN /\ pnext' = c.pn /\ UNCHANGED eproc
            /\ lastOp' = [op |-> tag, hung |-> TRUE]
       ELSE /\ pnext' = [c.pn EXCEPT ![tailof(c.pn, eproc)] = ps[1]]
            /\ UNCHANGED eproc
            /\ lastOp' = [op |-> tag, hung |-> FALSE]
  /\ UNCHANGED ptimeout
  /\ UNCHANGED bframe

\* en.Use(ps...)
Use(ps) == UseAs("Use", ps)

\* a processor as MakeProcessor makes it: no successor, no timeout, in no chain
Fresh(p) ==
  /\ pnext[p] = NoProc /\ ptimeout[p] = 0 /\ eproc # p
  /\ \A q \in Steps : pnext[q] # p

\* MakeProcessor(f, g): new function steps, each linked to the next by
\* last.Then(p); the first is returned
MakeProcessor(a, b) ==
  /\ ~Hung
  /\ Fresh(a) /\ Fresh(b) /\ a # b
  /\ pnext' = [pnext EXCEPT ![a] = b]
  /\ lastOp' = [op |-> "MakeProcessor", ret |-> a, hung |-> FALSE]
  /\ UNCHANGED bvars
  /\ UNCHANGED bframe

\* en.Call(f): self.Use(MakeProcessor(f))
Call(p) == Fresh(p) /\ UseAs("Call", <<p>>)

\* the values SetTimeout is called with
TimeoutArgs == {-1, 0, 1000, 2000}

\* p.SetTimeout(i) on one step: if i > 0 { self.timeout = i }
PSetTimeout(pt, p, i) == IF i > 0 THEN [pt EXCEPT ![p] = i] ELSE pt

\* Entry.SetTimeout that sets the head step only
SetTimeout_HeadOnly(i) ==
  /\ ~Hung
  /\ ptimeout' = IF i > 0 /\ eproc # NoProc
                 THEN PSetTimeout(ptimeout, eproc, i) ELSE ptimeout
  /\ lastOp' = [op |-> "SetTimeout", arg |-> i, hung |-> FALSE]
  /\ UNCHANGED <<pnext, eproc>>
  /\ UNCHANGED bframe

\* en.SetTimeout(i): if i > 0 { for p := self.proc; p != nil; p = p.getnext()
\* { p.SetTimeout(i) } }
SetTimeout(i) ==
  /\ ~Hung
  /\ ptimeout' = IF i > 0
                 THEN [p \in Steps |->
                         IF p \in Reach(pnext, eproc) THEN i ELSE ptimeout[p]]
                 ELSE ptimeout
  /\ lastOp' = [op |-> "SetTimeout", arg |-> i,
                hung |-> i > 0 /\ Cyclic(pnext, eproc)]
  /\ UNCHANGED <<pnext, eproc>>
  /\ UNCHANGED bframe

\* en.Close(): self.proc.Close(), which calls self.next.Close() and so on
EntryClose ==
  /\ ~Hung
  /\ lastOp' = [op |-> "Close", hung |-> Cyclic(pnext, eproc)]
  /\ UNCHANGED <<pnext, bvars>>
  /\ UNCHANGED bframe

\* ------------------------------------------------------------ websocket
\* the connections, and the goroutines at work on them: two that broadcast
\* (callbacks of any connection) and the reader of every connection
Conns == 1..MaxConns
Broadcasters == {<<"b", 1>>, <<"b", 2>>}
Reader(c) == <<"r", c>>
Threads == Broadcasters \cup {Reader(c) : c \in Conns}
NoThread == <<"none", 0>>

\* no websocket processor
WsIdle ==
  /\ clients = {} /\ alive = <<>> /\ chanClosed = <<>> /\ wpc = <<>>
  /\ rholders = {} /\ wholder = NoThread
  /\ thpc = <<>> /\ todo = <<>> /\ fails = <<>> /\ target = <<>>
  /\ wsPanic = FALSE

\* NxHandler.Websocket: a processor with an empty registry
WsInit ==
  /\ clients = {}
  /\ alive = [c \in Conns |-> FALSE]
  /\ chanClosed = [c \in Conns |-> FALSE]
  /\ wpc = [c \in Conns |-> "none"]
  /\ rholders = {} /\ wholder = NoThread
  /\ thpc = [t \in Threads |-> IF t \in Broadcasters THEN "idle" ELSE "none"]
  /\ todo = [t \in Broadcasters |-> {}]
  /\ fails = [t \in Broadcasters |-> <<>>]
  /\ target = [t \in Threads |-> 0]
  /\ wsPanic = FALSE

\* what the websocket goroutines leave alone
wsframe ==
  <<tvars, resHeader, resLog, wfail, stopped, cproc, chainNext, gpc, pipeClosed,
    endBy, endCode, nsent, commitAtExit, lvars, avars, cvars, bvars, fvars>>

\* sync.RWMutex: Lock waits for every holder, RLock for a writing holder
CanLock == rholders = {} /\ wholder = NoThread
CanRLock == wholder = NoThread

\* WebsocketProcessor.Process after a successful upgrade: the connection is
\* made with send: make(chan []byte), registered under the lock, and
\* cli.start() starts its reader and its writer
WsProcess(c) ==
  /\ ~wsPanic
  /\ wpc[c] = "none" /\ CanLock
  /\ clients' = clients \cup {c}
  /\ alive' = [alive EXCEPT ![c] = TRUE]
  /\ wpc' = [wpc EXCEPT ![c] = "recv"]
  /\ thpc' = [thpc EXCEPT ![Reader(c)] = "reading"]
  /\ target' = [target EXCEPT ![Reader(c)] = c]
  /\ UNCHANGED <<chanClosed, rholders, wholder, todo, fails, wsPanic>>
  /\ UNCHANGED wsframe

\* the writer goroutine: cli.conn.WriteMessage(...) has returned and the
\* goroutine is at  case message, ok := <-cli.send  again
WWritten(c) ==
  /\ ~wsPanic
  /\ wpc[c] = "write"
  /\ wpc' = [wpc EXCEPT ![c] = "recv"]
  /\ UNCHANGED <<clients, alive, chanClosed, rholders, wholder, thpc, todo,
                 fails, target, wsPanic>>
  /\ UNCHANGED wsframe

\* the writer goroutine receives from the closed channel (ok is false) and
\* calls cli.conn.WriteMessage(websocket.CloseMessage, []byte{}).  Once stop
\* has set self.send = nil the goroutine's read of the field races with that
\* write: it sees the closed channel still, or nil and waits for ever.
WRecvClosed(c) ==
  /\ ~wsPanic
  /\ wpc[c] = "recv" /\ chanClosed[c]
  /\ wpc' = [wpc EXCEPT ![c] = "closing"]
  /\ UNCHANGED <<clients, alive, chanClosed, rholders, wholder, thpc, todo,
                 fails, target, wsPanic>>
  /\ UNCHANGED wsframe

\* the writer goroutine after the close message: break.  The statement is
\* inside the select, so it leaves the select and not the for loop: the
\* goroutine is at  case message, ok := <-cli.send  again, and its deferred
\* cli.stop() does not run.
WBreak(c) ==
  /\ ~wsPanic
  /\ wpc[c] = "closing"
  /\ wpc' = [wpc EXCEPT ![c] = "recv"]
  /\ UNCHANGED <<clients, alive, chanClosed, rholders, wholder, thpc, todo,
                 fails, target, wsPanic>>
  /\ UNCHANGED wsframe

\* the writer goroutine's function has returned
WriterExited(c) == wpc[c] = "exited"

\* the reader goroutine: cli.conn.ReadMessage() returns an error, the loop
\* breaks and the deferred cli.stop() runs
RReadErr(c) ==
  /\ ~wsPanic
  /\ thpc[Reader(c)] = "reading"
  /\ thpc' = [thpc EXCEPT ![Reader(c)] = "salive"]
  /\ UNCHANGED <<clients, alive, chanClosed, wpc, rholders, wholder, todo,
                 fails, target, wsPanic>>
  /\ UNCHANGED wsframe

\* where a goroutine goes on when its stop() returns
AfterStop(t) == IF t \in Broadcasters THEN "stopfails" ELSE "exited"

\* stop(): if self.IsAlive() {
SAlive(t) ==
  /\ ~wsPanic
  /\ thpc[t] = "salive"
  /\ thpc' = [thpc EXCEPT ![t] = IF alive[target[t]] THEN "slock" ELSE AfterStop(t)]
  /\ UNCHANGED <<clients, alive, chanClosed, wpc, rholders, wholder, todo,
                 fails, target, wsPanic>>
  /\ UNCHANGED wsframe

\* removeClient: self.lock.Lock()
SLock(t) ==
  /\ ~wsPanic
  /\ thpc[t] = "slock" /\ CanLock
  /\ wholder' = t
  /\ thpc' = [thpc EXCEPT ![t] = "sdelete"]
  /\ UNCHANGED <<clients, alive, chanClosed, wpc, rholders, todo, fails,
                 target, wsPanic>>
  /\ UNCHANGED wsframe

\* removeClient: delete(self.clients, cli) and the deferred Unlock
SDelete(t) ==
  /\ ~wsPanic
  /\ thpc[t] = "sdelete"
  /\ clients' = clients \ {target[t]}
  /\ wholder' = NoThread
  /\ thpc' = [thpc EXCEPT ![t] = "sclose"]
  /\ UNCHANGED <<alive, chanClosed, wpc, rholders, todo, fails, target, wsPanic>>
  /\ UNCHANGED wsframe

\* stop(): close(self.send); self.conn.Close().  Closing a closed channel
\* panics.
SClose(t) ==
  /\ ~wsPanic
  /\ thpc[t] = "sclose"
  /\ IF chanClosed[target[t]]
     THEN /\ wsPanic' = TRUE
          /\ UNCHANGED <<chanClosed, thpc>>
     ELSE /\ chanClosed' = [chanClosed EXCEPT ![target[t]] = TRUE]
          /\ thpc' = [thpc EXCEPT ![t] = "snil"]
          /\ UNCHANGED wsPanic
  /\ UNCHANGED <<clients, alive, wpc, rholders, wholder, todo, fails, target>>
  /\ UNCHANGED wsframe

\* stop(): self.send = nil
SNil(t) ==
  /\ ~wsPanic
  /\ thpc[t] = "snil"
  /\ alive' = [alive EXCEPT ![target[t]] = FALSE]
  /\ thpc' = [thpc EXCEPT ![t] = AfterStop(t)]
  /\ UNCHANGED <<clients, chanClosed, wpc, rholders, wholder, todo, fails,
                 target, wsPanic>>
  /\ UNCHANGED wsframe

\* broadcast: self.lock.RLock(); defer self.lock.RUnlock(): the deferred call
\* runs when broadcast returns, not at the end of the block
BRLock(t) ==
  /\ ~wsPanic
  /\ thpc[t] = "idle" /\ CanRLock
  /\ rholders' = rholders \cup {t}
  /\ todo' = [todo EXCEPT ![t] = clients]
  /\ fails' = [fails EXCEPT ![t] = <<>>]
  /\ thpc' = [thpc EXCEPT ![t] = "loop"]
  /\ UNCHANGED <<clients, alive, chanClosed, wpc, wholder, target, wsPanic>>
  /\ UNCHANGED wsframe

\* the send case of the select can proceed: the channel is not nil and the
\* writer goroutine is waiting to receive (the channel has no buffer)
CanSend(c) == alive[c] /\ wpc[c] = "recv"

\* for cli := range self.clients { select { case cli.send <- msg: default:
\* fails = append(fails, cli) } }.  A send on a closed channel panics.
BSend(t, c) ==
  /\ ~wsPanic
  /\ thpc[t] = "loop" /\ c \in todo[t]
  /\ todo' = [todo EXCEPT ![t] = @ \ {c}]
  /\ IF alive[c] /\ chanClosed[c]
     THEN /\ wsPanic' = TRUE
          /\ UNCHANGED <<wpc, fails>>
     ELSE IF CanSend(c)
     THEN /\ wpc' = [wpc EXCEPT ![c] = "write"]
          /\ UNCHANGED <<fails, wsPanic>>
     ELSE /\ fails' = [fails EXCEPT ![t] = Append(@, c)]
          /\ UNCHANGED <<wpc, wsPanic>>
  /\ UNCHANGED <<clients, alive, chanClosed, rholders, wholder, thpc, target>>
  /\ UNCHANGED wsframe

\* the range loop is over: if len(fails) > 0 { for _, c := range fails {
BLoopEnd(t) ==
  /\ ~wsPanic
  /\ thpc[t] = "loop" /\ todo[t] = {}
  /\ thpc' = [thpc EXCEPT ![t] = "stopfails"]
  /\ UNCHANGED <<clients, alive, chanClosed, wpc, rholders, wholder, todo,
                 fails, target, wsPanic>>
  /\ UNCHANGED wsframe

\* c.stop() for the next connection of fails
BStopNext(t) ==
  /\ ~wsPanic
  /\ thpc[t] = "stopfails" /\ fails[t] # <<>>
  /\ target' = [target EXCEPT ![t] = Head(fails[t])]
  /\ fails' = [fails EXCEPT ![t] = Tail(@)]
  /\ thpc' = [thpc EXCEPT ![t] = "salive"]
  /\ UNCHANGED <<clients, alive, chanClosed, wpc, rholders, wholder, todo, wsPanic>>
  /\ UNCHANGED wsframe

\* broadcast returns: the deferred RUnlock runs
BReturn(t) ==
  /\ ~wsPanic
  /\ thpc[t] = "stopfails" /\ fails[t] = <<>>
  /\ rholders' = rholders \ {t}
  /\ thpc' = [thpc EXCEPT ![t] = "idle"]
  /\ UNCHANGED <<clients, alive, chanClosed, wpc, wholder, todo, fails,
                 target, wsPanic>>
  /\ UNCHANGED wsframe

\* ---------------------------------------------------------- specifications
Init == InitInvocation /\ AssembleIdle /\ ChainIdle /\ WsIdle

\* The whole invocation: gateway thread, translator and the next step, on
\* the named subprocess outputs.
Next ==
  \/ \E which \in PipeOutcomes : GPipes(which)
  \/ \E ok \in BOOLEAN : GStart(ok)
  \/ \E code \in {0, 1} : SubExit(code)
  \/ ReqCancel
  \/ Expire
  \/ Kill
  \/ \E err \in BOOLEAN : GRunReturn(err)
  \/ EndSet
  \/ EndWrite
  \/ GRunNext
  \/ NextSend
  \/ NextEnd
  \/ NextReturn
  \/ TRead(ConcChunks)
  \/ TReadEnd
  \/ THdrCheck
  \/ TWriteHeader
  \/ \E ok \in BOOLEAN : TWriteFirstBody(ok)
  \/ TBodyCheck
  \/ \E ok \in BOOLEAN : TWriteBody(ok)
  \/ TExit

Spec == Init /\ [][Next]_vars

\* What the scheduler and the clock guarantee: a thread that can take its
\* next step takes it, a deadline passes, a kill is delivered.  Nothing makes
\* the subprocess write or exit, the client go away or the next step call
\* SendBytes or End.
Fairness ==
  /\ WF_vars(\E which \in PipeOutcomes : GPipes(which))
  /\ WF_vars(\E ok \in BOOLEAN : GStart(ok))
  /\ WF_vars(\E err \in BOOLEAN : GRunReturn(err))
  /\ WF_vars(EndSet)
  /\ WF_vars(EndWrite)
  /\ WF_vars(GRunNext)
  /\ WF_vars(NextReturn)
  /\ WF_vars(Expire)
  /\ WF_vars(Kill)
  /\ WF_vars(THdrCheck)
  /\ WF_vars(TWriteHeader)
  /\ WF_vars(\E ok \in BOOLEAN : TWriteFirstBody(ok))
  /\ WF_vars(TBodyCheck)
  /\ WF_vars(\E ok \in BOOLEAN : TWriteBody(ok))
  /\ WF_vars(TExit)

SpecLive == Init /\ [][Next]_vars /\ Fairness

\* The translator while the subprocess runs, on every chunking of every
\* output over Alphabet up to the bounds and on the named outputs.
NextTranslator ==
  \/ \E which \in PipeOutcomes : GPipes(which)
  \/ GStart(TRUE)
  \/ TRead(NextChunks(reads))
  \/ TReadEnd
  \/ THdrCheck
  \/ TWriteHeader
  \/ \E ok \in BOOLEAN : TWriteFirstBody(ok)
  \/ TBodyCheck
  \/ \E ok \in BOOLEAN : TWriteBody(ok)
  \/ TExit

InitTranslator == Init /\ chainNext = "nil" /\ timeout = 0

\* The three routines of one invocation next to the gateway thread, for a
\* subprocess that writes diagnostic text only: the translator reads the end
\* of the stream.
NextWorkers ==
  \/ \E which \in PipeOutcomes : GPipes(which)
  \/ \E ok \in BOOLEAN : GStart(ok)
  \/ \E code \in {0, 1} : SubExit(code)
  \/ \E err \in BOOLEAN : GRunReturn(err)
  \/ EndSet
  \/ EndWrite
  \/ GRunNext
  \/ \E c \in BodyChunks, e \in BOOLEAN : FRead(c, e)
  \/ \E ok \in BOOLEAN : FWrite(ok)
  \/ FClose
  \/ ERead
  \/ EReadEnd
  \/ TReadEnd
  \/ TExit

SpecWorkers == InitTranslator /\ [][NextWorkers]_vars

\* What the scheduler and the operating system guarantee to the routines: a
\* routine that can take its next step takes it, and a read of a closed pipe
\* returns.  Nothing makes the client send the rest of the body or close it.
FairWorkers ==
  /\ Fairness
  /\ WF_vars(\E ok \in BOOLEAN : FWrite(ok))
  /\ WF_vars(FClose)
  /\ WF_vars(pipeClosed /\ EReadEnd)
  /\ WF_vars(pipeClosed /\ TReadEnd)

SpecWorkersLive == InitTranslator /\ [][NextWorkers]_vars /\ FairWorkers

SpecTranslator == InitTranslator /\ [][NextTranslator]_vars

\* Two requests that go through one gateway at the same time, up to the
\* start of their subprocesses.
NextAssemble ==
  \/ \E id \in ReqIds : AEnvAppend(id)
  \/ \E id \in ReqIds : AOptions(id)
  \/ \E id \in ReqIds : AParam(id)
  \/ \E id \in ReqIds : AExec(id)
  \/ \E id \in ReqIds : ARun(id)

InitAssemble ==
  /\ InitInvocation /\ chainNext = "nil" /\ timeout = 0
  /\ AssembleInit /\ ChainIdle /\ WsIdle

SpecAssemble == InitAssemble /\ [][NextAssemble]_vars

\* One request that runs through a chain of function steps; the handlers
\* make up to MaxOps calls each, of any kind and in any order.
NextChain ==
  \/ \E code \in EndCodes : CEnd(code)
  \/ CRedirect
  \/ CRunNext
  \/ CSend
  \/ \E i \in IdxChoices : CUrlParam(i)
  \/ CReturn

\* no gateway step is in the chain
GatewayIdle ==
  /\ InitWorkers /\ InitSubprocess
  /\ chainNext = "nil" /\ gpc = "none" /\ timeout = 0

InitChain == InitScope /\ GatewayIdle /\ AssembleIdle /\ ChainInit /\ WsIdle

SpecChain == InitChain /\ [][NextChain]_vars

\* The chain-building calls made while routes are registered.
NextBuild ==
  \/ \E a \in Steps, b \in Steps \cup {NoProc} : Then(a, b)
  \/ \E ps \in UseArgs : Use(ps)
  \/ \E a \in Steps, b \in Steps : MakeProcessor(a, b)
  \/ \E p \in Steps : Call(p)
  \/ \E i \in TimeoutArgs : SetTimeout(i)
  \/ EntryClose

InitBuild ==
  /\ InitScope /\ GatewayIdle /\ AssembleIdle /\ cproc = NoProc
  /\ BuildInit /\ WsIdle

SpecBuild == InitBuild /\ [][NextBuild]_vars

\* Connections are upgraded, their readers fail, and callbacks broadcast,
\* in any order and at the same time.
NextWs ==
  \/ \E c \in Conns : WsProcess(c)
  \/ \E c \in Conns : WWritten(c)
  \/ \E c \in Conns : WRecvClosed(c)
  \/ \E c \in Conns : WBreak(c)
  \/ \E c \in Conns : RReadErr(c)
  \/ \E t \in Threads : SAlive(t)
  \/ \E t \in Threads : SLock(t)
  \/ \E t \in Threads : SDelete(t)
  \/ \E t \in Threads : SClose(t)
  \/ \E t \in Threads : SNil(t)
  \/ \E t \in Broadcasters : BRLock(t)
  \/ \E t \in Broadcasters, c \in Conns : BSend(t, c)
  \/ \E t \in Broadcasters : BLoopEnd(t)
  \/ \E t \in Broadcasters : BStopNext(t)
  \/ \E t \in Broadcasters : BReturn(t)

InitWs ==
  /\ InitScope /\ GatewayIdle /\ AssembleIdle /\ ChainIdle /\ cproc = NoProc
  /\ WsInit

SpecWs == InitWs /\ [][NextWs]_vars

\* The goroutines of a connection are scheduled: a step of the writer, or of
\* a stop() under way, that stays possible is taken.  Nothing obliges a peer
\* to break its connection, a request to arrive or a callback to broadcast.
FairWs ==
  /\ \A c \in Conns : WF_vars(WWritten(c) \/ WRecvClosed(c) \/ WBreak(c))
  /\ \A t \in Threads :
       WF_vars(SAlive(t) \/ SLock(t) \/ SDelete(t) \/ SClose(t) \/ SNil(t))

SpecWsLive == SpecWs /\ FairWs


\* ------------------------------------------------- reading the response log
ByTranslator(e) == e.by = "translator"
TranslatorEntries(log) == SelectSeq(log, ByTranslator)
IsTranslatorCommit(e) == e.by = "translator" /\ e.op = "WriteHeader"
\* the translator has called w.WriteHeader
TranslatorCommitted == \E i \in 1..Len(resLog) : IsTranslatorCommit(resLog[i])
\* the status the translator committed
TranslatorCode == resLog[CHOOSE i \in 1..Len(resLog) : IsTranslatorCommit(resLog[i])].code

RECURSIVE Concat(_)
Concat(cs) == IF Len(cs) = 0 THEN <<>> ELSE Head(cs) \o Concat(Tail(cs))
IsTranslatorWrite(e) == e.by = "translator" /\ e.op = "Write"
RECURSIVE DataOf(_)
DataOf(log) == IF Len(log) = 0 THEN <<>> ELSE Head(log).data \o DataOf(Tail(log))
\* the body bytes the translator has written, in order
TranslatorBody == DataOf(SelectSeq(resLog, IsTranslatorWrite))

\* the chunk c holds a separator within its own bytes
HasSep(c) == FindIndex(c).found
\* the bytes of c before and after its first separator
BeforeSep(c) == SubSeq(c, 1, FindIndex(c).lo)
AfterSep(c) == SubSeq(c, FindIndex(c).hi + 1, Len(c))

\* ---------------------------------------------------------------- C1
\* The status a header block gives, as the claim reads it: the code of its
\* last `Status:` header (three digits, a reason phrase may follow) or
\* status line (HTTP/<version> <three digits>), 200 when it has neither.
StripCR(l) == IF Len(l) > 0 /\ l[Len(l)] = CR THEN SubSeq(l, 1, Len(l) - 1) ELSE l
LineName(l) == Trim(SubSeq(StripCR(l), 1, IndexByte(StripCR(l), COLON) - 1))
LineVal(l) == Trim(SubSeq(StripCR(l), IndexByte(StripCR(l), COLON) + 1, Len(StripCR(l))))
HasColon(l) == IndexByte(StripCR(l), COLON) > 0
ThreeDigitsAt(v, p) ==
  /\ Len(v) >= p + 2
  /\ IsDigit(v[p]) /\ IsDigit(v[p + 1]) /\ IsDigit(v[p + 2])
  /\ (Len(v) = p + 2 \/ v[p + 3] = SP)
IsStatusHeader(l) ==
  HasColon(l) /\ ToLower(LineName(l)) = StatusName /\ ThreeDigitsAt(LineVal(l), 1)
IsStatusLine(l) ==
  /\ ~HasColon(l)
  /\ Len(StripCR(l)) >= 5 /\ SubSeq(StripCR(l), 1, 5) = HttpPrefix
  /\ IndexByte(StripCR(l), SP) > 6
  /\ ThreeDigitsAt(StripCR(l), IndexByte(StripCR(l), SP) + 1)
LineCode(l) ==
  IF IsStatusHeader(l) THEN DecVal(SubSeq(LineVal(l), 1, 3))
  ELSE DecVal(SubSeq(StripCR(l), IndexByte(StripCR(l), SP) + 1, IndexByte(StripCR(l), SP) + 3))
ClaimStatus(block) ==
  LET ls == Split(block)
      S == {i \in 1..Len(ls) : IsStatusHeader(ls[i]) \/ IsStatusLine(ls[i])}
  IN IF S = {} THEN 200
     ELSE LineCode(ls[CHOOSE x \in S : \A y \in S : x >= y])

\* C1: when the whole header block and its separator arrive in the first
\* read, the status the translator commits is the one the block's Status
\* header or status line gives, and 200 when the block has neither.
C1_StatusOfSingleRead ==
  (Len(reads) >= 1 /\ HasSep(reads[1]) /\ TranslatorCommitted)
    => TranslatorCode = ClaimStatus(BeforeSep(reads[1]))

\* ---------------------------------------------------------------- C2
HeaderXFoo == HeaderSet(EmptyHeader, <<"X","-","F","o","o">>, <<"b","a","r">>)

\* C2: the output "Status: 404 Not Found\r\nX-Foo: bar\r\n\r\nbody" read as
\* one chunk gives status 404, header X-Foo=bar and body "body".
C2_Example2 ==
  (reads = <<ChunkExample2>> /\ TranslatorCommitted)
    => /\ TranslatorCode = 404
       /\ resHeader = HeaderXFoo
       /\ (tpc = "read" /\ ~wfail => TranslatorBody = ChunkBody)

\* ---------------------------------------------------------------- C3
\* C3: no subprocess output, however it is split into reads, makes a
\* goroutine of the invocation panic.
C3_NoPanic == tpc # "panic"


\* ---------------------------------------------------------------- C4
\* the output came as a first read without a separator and a second read
\* that holds headers, the separator and body bytes
TwoReadBlock ==
  /\ Len(reads) >= 2
  /\ ~HasSep(reads[1])
  /\ HasSep(reads[2])
  /\ Len(AfterSep(reads[2])) > 0

EndsInSepPrefix(c) ==
  /\ Len(c) > 0
  /\ \/ c[Len(c)] = LF
     \/ c[Len(c)] = CR /\ Len(c) > 1 /\ c[Len(c) - 1] = LF
\* a separator of a \o b lies across the boundary between a and b
Straddles(a, b) ==
  \E i \in 1..Len(a) :
    /\ MatchEndAt(a \o b, i) # -1
    /\ MatchEndAt(a \o b, i) > Len(a)

\* a step that reads one more chunk
ReadsChunk == Len(reads') = Len(reads) + 1
LastRead(rs) == rs[Len(rs)]

\* C5: a read in READING_HEADERS of a chunk that holds part of a separator
\* lying across two reads (its first part at the end of the chunk, or its
\* last part at the start of it) and no separator of its own finds no
\* separator: the chunk is appended to the header buffer and the translator
\* stays in READING_HEADERS.
C5_StraddleStep ==
  (/\ isheader /\ ReadsChunk
   /\ ~HasSep(LastRead(reads'))
   /\ \/ EndsInSepPrefix(LastRead(reads'))
      \/ (Len(reads) > 0 /\ ~HasSep(LastRead(reads))
            /\ Straddles(LastRead(reads), LastRead(reads'))))
    => (isheader' /\ hdr' = hdr \o LastRead(reads'))
C5_StraddleNeverDetected == [][C5_StraddleStep]_vars

\* ---------------------------------------------------------------- C6
\* the first chunk with a separator of its own, and the separator was found
\* by the read of that chunk
SepChunk == CHOOSE d \in 1..Len(reads) :
              HasSep(reads[d]) /\ \A e \in 1..(d - 1) : ~HasSep(reads[e])
FoundInChunk ==
  /\ ~isheader
  /\ \E d \in 1..Len(reads) : HasSep(reads[d])
  /\ hdr = Concat(SubSeq(reads, 1, SepChunk - 1)) \o BeforeSep(reads[SepChunk])

\* C6: with the separator found in a chunk and the response not aborted, the
\* body written is the rest of that chunk and then every later chunk.
C6_BodyExact ==
  (FoundInChunk /\ tpc = "read" /\ ~stop /\ ~stopped /\ ~wfail)
    => TranslatorBody =
         AfterSep(reads[SepChunk]) \o Concat(SubSeq(reads, SepChunk + 1, Len(reads)))

\* ---------------------------------------------------------------- C7
\* the lines of the header buffer that the parse loop goes through: all of
\* them, or those before the first empty one, at which the loop panics
HdrLines == Split(hdr)
ParsedCount ==
  LET E == {i \in 1..Len(HdrLines) : Len(HdrLines[i]) = 0}
  IN IF E = {} THEN Len(HdrLines) ELSE (CHOOSE x \in E : \A y \in E : x <= y) - 1
\* the lines among them that are a name/value pair with another name than status
PairLines ==
  {i \in 1..ParsedCount :
     HasColon(HdrLines[i]) /\ ToLower(LineName(HdrLines[i])) # StatusName}
LastPairOf(k) ==
  CHOOSE i \in PairLines :
    /\ Canon(LineName(HdrLines[i])) = k
    /\ \A j \in PairLines : Canon(LineName(HdrLines[j])) = k => j <= i

C8_Step == (stopped \/ wfail) => TranslatorEntries(resLog') = TranslatorEntries(resLog)
C8_NoWriteAfterAbort == [][C8_Step]_vars

\* ---------------------------------------------------------------- C9
\* C9: the translator's status commit comes before its first body write,
\* and no writer puts a body byte on the response before that commit.
C9_CommitBeforeBody ==
  /\ \A i \in 1..Len(resLog) :
       IsTranslatorWrite(resLog[i])
         => \E j \in 1..(i - 1) : IsTranslatorCommit(resLog[j])
  /\ \A j \in 1..Len(resLog) :
       IsTranslatorCommit(resLog[j])
         => \A i \in 1..(j - 1) : resLog[i].op # "Write"

\* --------------------------------------------------------------- C10
ByGateway(e) == e.by = "gateway"
GatewayEntries(log) == SelectSeq(log, ByGateway)

\* C10: when cmd.Run returns an error after the translator has committed a
\* status, the gateway thread makes no call on the response, and a chunk the
\* translator holds in STREAMING_BODY is still forwarded.
C10_Step ==
  (commitAtExit /\ endBy = "gateway")
    => /\ GatewayEntries(resLog') = GatewayEntries(resLog)
       /\ (tpc = "bodycheck" => tpc' # "read")
C10_ErrorOnlyLogged == [][C10_Step]_vars

\* --------------------------------------------------------------- C11
\* C11: when obtaining the stdin, stdout or stderr pipe has failed, the
\* request is stopped with the single response call WriteHeader(500) and the
\* gateway has returned; the subprocess was never started, the translator
\* was never started and has read and written nothing, and the chain
\* position is still the gateway with no later step run.
C11_PipeFailureAborts ==
  pipeErr # "none" =>
    /\ stopped
    /\ resLog = <<LogWriteHeader("gateway", 500)>>
    /\ gpc = "returned"
    /\ sub = "none" /\ ~pipeClosed
    /\ tpc = "idle" /\ reads = <<>>
    /\ fpc = "idle" /\ epc = "idle"
    /\ cproc = "cgi" /\ nsent = 0

C11_Witness == pipeErr = "stderr" /\ gpc = "returned" /\ stopped

\* --------------------------------------------------------------- C12
\* cmd.Run has returned an error: no start, a nonzero exit, or a kill
RunFailed == sub \in {"nostart", "exit1", "killed"}
\* the step after the gateway has been entered
SuccessorRan == cproc # "cgi" \/ gpc = "next" \/ nsent > 0 \/ endBy = "next"

\* C12: the chain is advanced only once the subprocess has exited without
\* an execution error and Wait has collected it; then RunNext is called and
\* a successor, when there is one, is entered.  After an execution error the
\* gateway calls End(500), the scope ends stopped, and the successor is
\* never entered.
C12_AdvanceAfterExit ==
  /\ (gpc = "runnext" \/ SuccessorRan) => (sub = "exit0" /\ pipeClosed)
  /\ RunFailed => ~SuccessorRan /\ gpc # "runnext"
  /\ (RunFailed /\ gpc \in {"end", "endwrite", "returned"})
       => (endBy = "gateway" /\ endCode = 500)
  /\ (RunFailed /\ gpc = "returned") => stopped
  /\ (sub = "exit0" /\ gpc = "returned" /\ chainNext # "nil") => cproc = chainNext

C12_Witness ==
  /\ sub = "exit0" /\ gpc = "returned"
  /\ cproc = "fn" /\ nsent > 0

\* --------------------------------------------------------------- C13
\* C13: with a configured timeout of 0, once the request is cancelled while
\* the subprocess runs, the subprocess is eventually ended (the process
\* crash of C3 apart).
C13_CancelEndsUnboundedRun ==
  (timeout = 0 /\ ctxDone = "cancelled" /\ sub = "running")
    ~> (sub # "running" \/ Crashed)

\* --------------------------------------------------------------- C14
\* the number of entries of the list es that are equal to x
Count(es, x) == Cardinality({i \in 1..Len(es) : es[i] = x})
\* a header name of the request r with the index of one of its values
HeaderPairs(r) ==
  UNION {{<<k, i>> : i \in 1..Len(r.header[k])} : k \in DOMAIN r.header}
\* the pairs of r that give the same normalised name and the same value as pr
SamePairs(r, pr) ==
  {q \in HeaderPairs(r) :
     /\ EnvName(q[1]) = EnvName(pr[1])
     /\ r.header[q[1]][q[2]] = r.header[pr[1]][pr[2]]}
\* the request id has started its subprocess
Started(id) == apc[id] = "done"

\* C14: the environment a subprocess is started with holds, for every header
\* name H of its request and every value v of H, an entry N=v and an entry
\* HTTP_N=v, N being H in upper case with underscores for hyphens: one such
\* pair of entries for each value.
C14_HeaderEntries ==
  \A id \in DOMAIN apc :
    Started(id) =>
      \A pr \in HeaderPairs(rq[id]) :
        LET N == EnvName(pr[1])
            v == rq[id].header[pr[1]][pr[2]]
            k == Cardinality(SamePairs(rq[id], pr))
        IN /\ Count(procEnv[id], Kv(N, v)) >= k
           /\ Count(procEnv[id], Kv(HttpUnderscore \o N, v)) >= k

\* --------------------------------------------------------------- C15
\* the fixed prefix, the dynamic options when they are a list of strings,
\* and the route-match parameters of the request id
ClaimArgs(id) ==
  SubSeq(optsBack, 1, optsLen)
    \o (IF rq[id].options.kind = "strings" THEN rq[id].options.val ELSE <<>>)
    \o rq[id].params

\* C15: the arguments a command is made with are the fixed prefix, then the
\* request's dynamic options when that value is a list of strings, then the
\* request's route-match parameters in order, and nothing else.
C15_ArgsExact ==
  \A id \in DOMAIN apc :
    apc[id] \in {"run", "done"} => cmdArgs[id] = ClaimArgs(id)

\* --------------------------------------------------------------- C16
\* The port segment of a Host value is what follows the colon behind the
\* host; the host is a bracketed IPv6 literal or a name without a colon.
HostEnd(h) ==
  IF Len(h) > 0 /\ h[1] = "[" /\ IndexByte(h, "]") > 0 THEN IndexByte(h, "]")
  ELSE IF IndexByte(h, COLON) > 0 THEN IndexByte(h, COLON) - 1
  ELSE Len(h)
HasPort(h) == Len(h) > HostEnd(h) /\ h[HostEnd(h) + 1] = COLON
HostWithoutPort(h) == SubSeq(h, 1, HostEnd(h))
PortSegment(h) == SubSeq(h, HostEnd(h) + 2, Len(h))

\* C16: the environment a subprocess is started with holds SERVER_PORT=80
\* when the Host value of its request has no port segment and SERVER_PORT
\* with the port segment otherwise, and SERVER_NAME with the Host value
\* without the port.
C16_ServerNameAndPort ==
  \A id \in DOMAIN apc :
    Started(id) =>
      /\ Count(procEnv[id], Kv(ServerName, HostWithoutPort(rq[id].host))) > 0
      /\ Count(procEnv[id],
               IF HasPort(rq[id].host)
               THEN Kv(ServerPort, PortSegment(rq[id].host)) ELSE ServerPort80) > 0


\* ---------------------------------------------------------------- C17
\* a call of End or Redirect has just been made
IsStopCall(o) == o.op \in {"End", "Redirect"}

\* what a step may see of the response and of the chain
ScopeView == <<stopped, resHeader, resLog, cproc, pnext, ran>>

\* C17: End is idempotent and the stopped flag is monotonic.  In every step
\* of a request that runs through a chain, stopped never goes from true to
\* false; a call of End or Redirect made while the flag is clear sets it and
\* calls WriteHeader with its status (the status of End, 301 for Redirect) as
\* the next write of the response; a call made while the flag is set writes
\* nothing and changes nothing of the flag, the response or the chain
\* position.
C17_Step ==
  /\ stopped => stopped'
  /\ IsStopCall(lastOp') =>
       IF stopped
       THEN UNCHANGED ScopeView
       ELSE /\ stopped'
            /\ Len(resLog') > Len(resLog)
            /\ SubSeq(resLog', 1, Len(resLog)) = resLog
            /\ resLog'[Len(resLog) + 1] = LogWriteHeader("step", lastOp'.code)
            /\ UNCHANGED <<cproc, pnext, ran>>

C17_EndIdempotent == [][C17_Step]_vars

\* a step has called End or Redirect on a scope that another step stopped
\* already, and the response holds the one status written first
C17_Witness ==
  /\ IsStopCall(lastOp) /\ lastOp.was
  /\ Len(ran) > 1
  /\ Cardinality({i \in 1..Len(resLog) : resLog[i].op = "WriteHeader"}) = 1

\* ---------------------------------------------------------------- C18
\* C18: RunNext moves the chain position (cproc) to the successor of the
\* step at the position and calls its Process exactly when the scope is not
\* stopped and that step has a successor; otherwise no Process is called and
\* the position, the stopped flag and the response are unchanged.
C18_Step ==
  lastOp'.op = "RunNext" =>
    IF ~stopped /\ pnext[cproc] # NoProc
    THEN /\ cproc' = pnext[cproc]
         /\ ran' = Append(ran, pnext[cproc])
         /\ Len(stack') = Len(stack) + 1
         /\ stack'[Len(stack')] = Frame(pnext[cproc])
         /\ UNCHANGED <<stopped, resHeader, resLog>>
    ELSE /\ Len(stack') = Len(stack)
         /\ UNCHANGED ScopeView

C18_RunNextGuarded == [][C18_Step]_vars

\* RunNext has been called on a stopped scope at a step that has a successor,
\* and the successor has not run
C18_Witness ==
  /\ lastOp.op = "RunNext" /\ lastOp.was
  /\ pnext[cproc] # NoProc
  /\ \A i \in 1..Len(ran) : ran[i] # pnext[cproc]

\* ---------------------------------------------------------------- C19
\* C19: once the handler of a step has returned without calling RunNext, End
\* or Redirect, no step after it in the chain is executed for the request.
C19_QuietStepEndsChain ==
  \A p \in quiet : \A i \in 1..Len(ran) : ran[i] <= p

\* ---------------------------------------------------------------- C20
\* C20: a call a.Then(b) on a step a that has a successor panics, every time,
\* and leaves every successor as it was; on a step with no successor it sets
\* the successor of a to b, changes no other step and returns b.
C20_Step ==
  lastOp'.op = "Then" =>
    IF pnext[lastOp'.recv] # NoProc
    THEN /\ lastOp'.panicked
         /\ pnext' = pnext
    ELSE /\ ~lastOp'.panicked
         /\ pnext' = [pnext EXCEPT ![lastOp'.recv] = lastOp'.arg]
         /\ lastOp'.ret = lastOp'.arg

C20_ThenOnce == [][C20_Step]_vars

\* a second Then on a linked step has panicked and the step has kept the
\* successor it had, which is not the one offered
C20_Witness ==
  /\ lastOp.op = "Then" /\ lastOp.panicked
  /\ pnext[lastOp.recv] # NoProc
  /\ pnext[lastOp.recv] # lastOp.arg

\* ---------------------------------------------------------------- C21
\* C21: UrlParam(i) never panics; it returns the i-th route-match parameter
\* (counted from 0) when 0 <= i < len(params), and the empty string for every
\* other index, the negative ones included.
C21_UrlParamTotal ==
  lastOp.op = "UrlParam" =>
    /\ ~lastOp.panicked
    /\ lastOp.ret = IF 0 <= lastOp.idx /\ lastOp.idx < Len(params)
                    THEN params[lastOp.idx + 1]
                    ELSE ""

\* ---------------------------------------------------------------- C22
\* C22: a call en.SetTimeout(i) with i > 0 sets the timeout of every step on
\* the chain of the entry, from its head to its end, to i and leaves the
\* timeout of every other step as it was; with i <= 0 it leaves every timeout
\* as it was.  It changes no link and not the head.
C22_Step ==
  lastOp'.op = "SetTimeout" =>
    /\ pnext' = pnext /\ eproc' = eproc
    /\ IF lastOp'.arg > 0
       THEN \A p \in Steps :
              ptimeout'[p] = IF p \in Reach(pnext, eproc)
                             THEN lastOp'.arg ELSE ptimeout[p]
       ELSE ptimeout' = ptimeout

C22_TimeoutPropagates == [][C22_Step]_vars

\* a second timeout has replaced the first on a chain of two steps or more,
\* and a step outside the chain has none
C22_Witness ==
  /\ lastOp.op = "SetTimeout" /\ lastOp.arg = 2000 /\ ~lastOp.hung
  /\ eproc # NoProc /\ pnext[eproc] # NoProc
  /\ \A p \in Reach(pnext, eproc) : ptimeout[p] = 2000
  /\ \E p \in Steps \ Reach(pnext, eproc) : ptimeout[p] = 0

\* ---------------------------------------------------------------- C30
\* C30: whatever calls of Then, Use, Call and MakeProcessor have been made,
\* the successor links from the head step of the entry reach a step with no
\* successor, and no loop over the chain (the tail search of Use, SetTimeout,
\* Close) has failed to end.
C30_ChainsLinear ==
  /\ eproc # NoProc => ~Cyclic(pnext, eproc)
  /\ ~Hung

\* ---------------------------------------------------------------- C25
\* the configured environment and the configured arguments
FixedEnv == SubSeq(envsBack, 1, envsLen)
FixedOpts == SubSeq(optsBack, 1, optsLen)

\* C25: at request time the configuration of the gateway is read only.  No
\* step of any request writes into the backing arrays of the configured
\* environment and arguments, which all requests share; and the environment
\* and the arguments a subprocess is started with are the configured ones
\* followed by the values derived from its own request, and nothing else.
C25_Step ==
  /\ UNCHANGED <<envsBack, optsBack>>
  /\ \A id \in DOMAIN apc :
       /\ apc'[id] = "done" => procEnv'[id] = FixedEnv \o EnvItems(rq[id])
       /\ apc'[id] \in {"run", "done"} =>
            cmdArgs'[id] = FixedOpts
                             \o (IF IsStringSlice(rq[id].options)
                                 THEN rq[id].options.val ELSE <<>>)
                             \o rq[id].params

C25_ConfigReadOnly == [][C25_Step]_vars

\* ---------------------------------------------------------------- C29
\* the name of an environment entry: what stands before the first "="
NameOf(entry) ==
  IF IndexByte(entry, "=") = 0 THEN entry
  ELSE SubSeq(entry, 1, IndexByte(entry, "=") - 1)

\* the last entry of es with the name nm
LastWith(es, nm) ==
  es[CHOOSE i \in 1..Len(es) :
       /\ NameOf(es[i]) = nm
       /\ \A j \in (i + 1)..Len(es) : NameOf(es[j]) # nm]

\* C29: in the environment a subprocess is started with, the last entry with
\* the name of a configured entry is that configured entry: the configured
\* value is the last assignment, whatever the request has given that name.
C29_FixedEntriesWin ==
  \A id \in DOMAIN apc :
    Started(id) =>
      \A i \in 1..envsLen :
        (\E k \in 1..Len(procEnv[id]) : procEnv[id][k] = FixedEnvEntry(i))
          => LastWith(procEnv[id], NameOf(FixedEnvEntry(i))) = FixedEnvEntry(i)

\* ---------------------------------------------------------------- C26
\* cmd.Wait has collected the subprocess and closed the pipes
SubprocessGone == sub \in {"exit0", "exit1", "killed"} /\ pipeClosed
WorkersDone == fpc = "exited" /\ tpc = "done" /\ epc = "exited"

\* C26: once the subprocess has exited and its pipes are closed, the feeder,
\* the translator and the collector have all terminated some time later,
\* whether or not the request body has reached its end.
C26_WorkersTerminate == SubprocessGone ~> (WorkersDone \/ Crashed)

\* ---------------------------------------------------------------- C27
RECURSIVE Flatten(_)
Flatten(ss) == IF Len(ss) = 0 THEN <<>> ELSE Head(ss) \o Flatten(Tail(ss))

\* the bytes of the stdin.Write calls made, in order
WrittenBytes == Flatten([i \in 1..Len(stdinW) |-> stdinW[i].data])
\* the chunks read whose write is due by now: all but the one in hand
DueChunks ==
  IF fpc = "write" THEN SubSeq(bodyRead, 1, Len(bodyRead) - 1) ELSE bodyRead

\* C27: the bytes the feeder has passed to stdin.Write are the bytes it has
\* read from the body, in the same order and unchanged, a chunk that came
\* with an error included; the feeder closes the pipe only when every chunk
\* read has been passed on; and for a body of zero bytes the pipe is closed
\* and no byte was written.
C27_FeederForwards ==
  /\ WrittenBytes = Flatten(DueChunks)
  /\ fpc \in {"close", "exited"} => fend /\ WrittenBytes = Flatten(bodyRead)
  /\ (fpc = "exited" /\ Flatten(bodyRead) = <<>>) => WrittenBytes = <<>>

\* the feeder has ended after a read that returned the last bytes of the
\* body together with the error, and those bytes were written before
C27_Witness ==
  /\ fpc = "exited" /\ fend
  /\ Len(bodyRead) = 2 /\ bodyRead[2] = <<"b", "c">>
  /\ Len(stdinW) = 2 /\ stdinW[2].data = <<"b", "c">> /\ stdinW[2].ok

\* ---------------------------------------------------------------- C28
\* C28: as long as the translator is in READING_HEADERS it has committed no
\* status, set no response header and written no body byte; so a translator
\* that has left its loop in that state, on the end of the stream or a read
\* error, has sent nothing, whatever bytes it had accumulated.
C28_NoHeaderBlockNoOutput ==
  isheader =>
    /\ TranslatorEntries(resLog) = <<>>
    /\ resHeader = EmptyHeader

\* the translator has ended in READING_HEADERS with bytes accumulated
C28_Witness ==
  /\ tpc = "done" /\ isheader
  /\ Len(reads) >= 1 /\ Len(hdr) > 0
  /\ resLog = <<>>

\* ---------------------------------------------------------------- C24
\* the translator has passed its test of the stopped flag and its next step
\* is a WriteHeader or a Write on the response
TranslatorAboutToWrite == tpc \in {"writeheader", "writebody0", "writebody"}

\* C24: while the translator of an invocation is at work, and the more so
\* while its next step is a write, every call that writes to the response is
\* made by the translator: no step of the gateway thread and no later chain
\* step adds a WriteHeader or a Write then.
C24_Step ==
  (TranslatorAboutToWrite /\ Len(resLog') > Len(resLog)) =>
    \A i \in (Len(resLog) + 1)..Len(resLog') : ByTranslator(resLog'[i])

C24_TranslatorSoleWriter == [][C24_Step]_vars

\* ---------------------------------------------------------------- C23
\* C23: a goroutine that broadcasts is never made to wait for the registry
\* lock while it holds that lock itself: it does not ask for the write lock
\* (to remove a connection that could not take the message) before it has
\* released its read lock, so its broadcast can always go on to its return.
C23_BroadcastNeverWaitsOnOwnLock ==
  \A t \in Broadcasters : ~(thpc[t] = "slock" /\ t \in rholders)

\* the connection has been torn down: stop() has closed its outbound queue
TornDown(c) == chanClosed[c]

\* C31 (writer part): once a connection has been torn down, its writer
\* goroutine terminates.
C31_WriterTerminatesAfterTeardown ==
  \A c \in Conns : TornDown(c) ~> WriterExited(c)

\* the outbound queue of no connection is closed a second time
NoSecondClose == ~wsPanic
====
